---------------------------- MODULE Spec2Model ----------------------------
(***************************************************************************)
(* Model of the length-prefixed TCP message protocol of src/tcp_socket:    *)
(* the frame codec (TCPProtocol), the receive loop that drains it, and the *)
(* multi-client server (TCPServer / TCPClientHandler).                     *)
(*                                                                         *)
(* Python values are tagged tuples:                                        *)
(*   None       <<"null">>          int   <<"int", n>>                     *)
(*   bool       <<"bool", b>>       str   <<"str", code points>>           *)
(*   dict       <<"obj", <<key, value>> pairs in insertion order>>         *)
(* A str is a sequence of Unicode code points, bytes a sequence of 0..255. *)
(***************************************************************************)
EXTENDS Integers, Sequences, FiniteSets, TLC

(***************************************************************************)
(* Characters used by the literals of the model, with their code points.   *)
(***************************************************************************)
OrdTable ==
    { <<" ", 32>>, <<"!", 33>>, <<"\"", 34>>, <<"C", 67>>, <<"P", 80>>, <<"S", 83>>,
      <<"T", 84>>, <<"W", 87>>, <<",", 44>>, <<"-", 45>>, <<"/", 47>>,
      <<"0", 48>>, <<"1", 49>>, <<"2", 50>>, <<"3", 51>>, <<"4", 52>>,
      <<"5", 53>>, <<"6", 54>>, <<"7", 55>>, <<"8", 56>>, <<"9", 57>>, <<":", 58>>,
      <<"\\", 92>>, <<"_", 95>>, <<"j", 106>>, <<"q", 113>>, <<"v", 118>>,
      <<"w", 119>>, <<"z", 122>>, <<"a", 97>>, <<"b", 98>>, <<"c", 99>>, <<"d", 100>>,
      <<"e", 101>>, <<"f", 102>>, <<"g", 103>>, <<"h", 104>>, <<"i", 105>>,
      <<"k", 107>>, <<"l", 108>>, <<"m", 109>>, <<"n", 110>>, <<"o", 111>>,
      <<"p", 112>>, <<"r", 114>>, <<"s", 115>>, <<"t", 116>>, <<"u", 117>>,
      <<"x", 120>>, <<"y", 121>>, <<"{", 123>>, <<"}", 125>>, <<"é", 233>> }

Ord == [c \in {p[1] : p \in OrdTable} |-> (CHOOSE p \in OrdTable : p[1] = c)[2]]

\* A Python str literal, written <<"h", "i">>, as its code points.
Text(s) == [i \in 1..Len(s) |-> Ord[s[i]]]

None == <<"null">>
PyStr(s) == <<"str", s>>
PyInt(n) == <<"int", n>>
PyBool(b) == <<"bool", b>>
PyDict(kv) == <<"obj", kv>>
IsDict(v) == v[1] = "obj"
IsStr(v) == v[1] = "str"

RECURSIVE Concat(_)
Concat(ss) == IF ss = <<>> THEN <<>> ELSE Head(ss) \o Concat(Tail(ss))

(***************************************************************************)
(* str.encode('utf-8') and bytes.decode('utf-8'), for code points below    *)
(* U+0800 (one- and two-byte sequences).                                   *)
(***************************************************************************)
Utf8Char(cp) ==
    IF cp < 128 THEN <<cp>> ELSE <<192 + (cp \div 64), 128 + (cp % 64)>>

Utf8Encode(s) == Concat([i \in 1..Len(s) |-> Utf8Char(s[i])])

IsCont(b) == b >= 128 /\ b < 192

\* <<TRUE, str>> or <<FALSE>> (UnicodeDecodeError)
RECURSIVE Utf8DecodeFrom(_, _, _)
Utf8DecodeFrom(b, i, acc) ==
    IF i > Len(b) THEN <<TRUE, acc>>
    ELSE IF b[i] < 128 THEN Utf8DecodeFrom(b, i + 1, Append(acc, b[i]))
    ELSE IF b[i] >= 194 /\ b[i] < 224 /\ i + 1 <= Len(b) /\ IsCont(b[i + 1])
         THEN Utf8DecodeFrom(b, i + 2,
                  Append(acc, (b[i] - 192) * 64 + (b[i + 1] - 128)))
    ELSE <<FALSE>>

Utf8Decode(b) == Utf8DecodeFrom(b, 1, <<>>)

(***************************************************************************)
(* struct.pack('>I', n) and struct.unpack('>I', b)[0]                      *)
(***************************************************************************)
StructPackI(n) ==
    << (n \div 16777216) % 256, (n \div 65536) % 256, (n \div 256) % 256, n % 256 >>

StructUnpackI(b) == b[1] * 16777216 + b[2] * 65536 + b[3] * 256 + b[4]

(***************************************************************************)
(* json.dumps (default separators, ensure_ascii) of str keys and of None,  *)
(* bool, int, str and dict values.                                         *)
(***************************************************************************)
HexDigits == Text(<<"0", "1", "2", "3", "4", "5", "6", "7", "8", "9",
                   "a", "b", "c", "d", "e", "f">>)

Hex4(cp) == << HexDigits[((cp \div 4096) % 16) + 1], HexDigits[((cp \div 256) % 16) + 1],
               HexDigits[((cp \div 16) % 16) + 1], HexDigits[(cp % 16) + 1] >>

JsonEscapeChar(cp) ==
    IF cp = Ord["\""] \/ cp = Ord["\\"] THEN <<Ord["\\"], cp>>
    ELSE IF cp < 32 \/ cp >= 127 THEN <<Ord["\\"], Ord["u"]>> \o Hex4(cp)
    ELSE <<cp>>

JsonDumpsStr(s) ==
    <<Ord["\""]>> \o Concat([i \in 1..Len(s) |-> JsonEscapeChar(s[i])]) \o <<Ord["\""]>>

RECURSIVE DecimalDigits(_)
DecimalDigits(n) ==
    IF n < 10 THEN <<48 + n>> ELSE Append(DecimalDigits(n \div 10), 48 + (n % 10))

JsonDumpsInt(n) == IF n < 0 THEN <<Ord["-"]>> \o DecimalDigits(-n) ELSE DecimalDigits(n)

RECURSIVE JsonDumps(_)
RECURSIVE JsonDumpsItems(_)
JsonDumpsItems(kv) ==
    IF kv = <<>> THEN <<>>
    ELSE JsonDumpsStr(kv[1][1]) \o Text(<<":", " ">>) \o JsonDumps(kv[1][2]) \o
         (IF Len(kv) > 1 THEN Text(<<",", " ">>) \o JsonDumpsItems(Tail(kv)) ELSE <<>>)

JsonDumps(v) ==
    CASE v[1] = "null" -> Text(<<"n", "u", "l", "l">>)
      [] v[1] = "bool" -> IF v[2] THEN Text(<<"t", "r", "u", "e">>)
                                  ELSE Text(<<"f", "a", "l", "s", "e">>)
      [] v[1] = "int"  -> JsonDumpsInt(v[2])
      [] v[1] = "str"  -> JsonDumpsStr(v[2])
      [] v[1] = "obj"  -> <<Ord["{"]>> \o JsonDumpsItems(v[2]) \o <<Ord["}"]>>

(***************************************************************************)
(* json.loads of a str: objects, strings, integers, null, true, false.     *)
(* A parse result is <<TRUE, value, next index>> or <<FALSE>>              *)
(* (json.JSONDecodeError).  Arrays and floats are outside the inputs the   *)
(* model draws.                                                            *)
(***************************************************************************)
JsonFail == <<FALSE>>
JsonOk(v, i) == <<TRUE, v, i>>

Whitespace == {32, 9, 10, 13}
IsDigit(c) == c >= 48 /\ c <= 57
IsHex(c) == IsDigit(c) \/ (c >= 97 /\ c <= 102) \/ (c >= 65 /\ c <= 70)
HexVal(c) == IF IsDigit(c) THEN c - 48 ELSE IF c >= 97 THEN c - 87 ELSE c - 55

RECURSIVE SkipWs(_, _)
SkipWs(s, i) == IF i <= Len(s) /\ s[i] \in Whitespace THEN SkipWs(s, i + 1) ELSE i

HasAt(s, i, lit) == i + Len(lit) - 1 <= Len(s) /\ SubSeq(s, i, i + Len(lit) - 1) = lit

\* the simple escapes of json.decoder.BACKSLASH
Backslash(c) ==
    CASE c = Ord["\""] -> c
      [] c = Ord["\\"] -> c
      [] c = Ord["/"]  -> c
      [] c = Ord["b"]  -> 8
      [] c = Ord["f"]  -> 12
      [] c = Ord["n"]  -> 10
      [] c = Ord["r"]  -> 13
      [] c = Ord["t"]  -> 9
      [] OTHER         -> -1

\* json.decoder.py_scanstring, from the index after the opening quote
RECURSIVE ScanString(_, _, _)
ScanString(s, i, acc) ==
    IF i > Len(s) THEN JsonFail
    ELSE IF s[i] = Ord["\""] THEN JsonOk(PyStr(acc), i + 1)
    ELSE IF s[i] = Ord["\\"] THEN
        IF i + 1 > Len(s) THEN JsonFail
        ELSE IF s[i + 1] = Ord["u"] THEN
            IF i + 5 <= Len(s) /\ \A j \in (i + 2)..(i + 5) : IsHex(s[j])
            THEN ScanString(s, i + 6,
                     Append(acc, HexVal(s[i + 2]) * 4096 + HexVal(s[i + 3]) * 256 +
                                 HexVal(s[i + 4]) * 16 + HexVal(s[i + 5])))
            ELSE JsonFail
        ELSE IF Backslash(s[i + 1]) >= 0
             THEN ScanString(s, i + 2, Append(acc, Backslash(s[i + 1])))
        ELSE JsonFail
    ELSE IF s[i] < 32 THEN JsonFail
    ELSE ScanString(s, i + 1, Append(acc, s[i]))

RECURSIVE ScanDigits(_, _, _)
ScanDigits(s, i, n) ==
    IF i <= Len(s) /\ IsDigit(s[i]) THEN ScanDigits(s, i + 1, n * 10 + (s[i] - 48))
    ELSE <<n, i>>

\* json.scanner NUMBER_RE, integer part: -?(0|[1-9]\d*)
ScanNumber(s, i) ==
    LET neg == s[i] = Ord["-"]
        j   == IF neg THEN i + 1 ELSE i
    IN  IF j > Len(s) \/ ~IsDigit(s[j]) THEN JsonFail
        ELSE IF s[j] = 48 THEN JsonOk(PyInt(0), j + 1)
        ELSE LET r == ScanDigits(s, j, 0)
             IN  JsonOk(PyInt(IF neg THEN -r[1] ELSE r[1]), r[2])

\* dict(pairs): a repeated key keeps its first position and takes the last value
DictPut(kv, k, v) ==
    IF \E j \in 1..Len(kv) : kv[j][1] = k
    THEN [j \in 1..Len(kv) |-> IF kv[j][1] = k THEN <<k, v>> ELSE kv[j]]
    ELSE Append(kv, <<k, v>>)

RECURSIVE ScanOnce(_, _)
RECURSIVE JsonObjectItems(_, _, _)

\* json.decoder.JSONObject from the opening quote of a key at index i
JsonObjectItems(s, i, kv) ==
    LET key == ScanString(s, i + 1, <<>>)
    IN  IF ~key[1] THEN JsonFail
        ELSE LET c == SkipWs(s, key[3])
             IN  IF c > Len(s) \/ s[c] # Ord[":"] THEN JsonFail
                 ELSE LET val == ScanOnce(s, SkipWs(s, c + 1))
                      IN  IF ~val[1] THEN JsonFail
                          ELSE LET e    == SkipWs(s, val[3])
                                   pairs == DictPut(kv, key[2][2], val[2])
                               IN  IF e > Len(s) THEN JsonFail
                                   ELSE IF s[e] = Ord["}"] THEN JsonOk(PyDict(pairs), e + 1)
                                   ELSE IF s[e] # Ord[","] THEN JsonFail
                                   ELSE LET n == SkipWs(s, e + 1)
                                        IN  IF n > Len(s) \/ s[n] # Ord["\""] THEN JsonFail
                                            ELSE JsonObjectItems(s, n, pairs)

\* json.scanner.py_make_scanner _scan_once
ScanOnce(s, i) ==
    IF i > Len(s) THEN JsonFail
    ELSE IF s[i] = Ord["\""] THEN ScanString(s, i + 1, <<>>)
    ELSE IF s[i] = Ord["{"] THEN
        LET j == SkipWs(s, i + 1)
        IN  IF j > Len(s) THEN JsonFail
            ELSE IF s[j] = Ord["}"] THEN JsonOk(PyDict(<<>>), j + 1)
            ELSE IF s[j] # Ord["\""] THEN JsonFail
            ELSE JsonObjectItems(s, j, <<>>)
    ELSE IF HasAt(s, i, Text(<<"n", "u", "l", "l">>)) THEN JsonOk(None, i + 4)
    ELSE IF HasAt(s, i, Text(<<"t", "r", "u", "e">>)) THEN JsonOk(PyBool(TRUE), i + 4)
    ELSE IF HasAt(s, i, Text(<<"f", "a", "l", "s", "e">>)) THEN JsonOk(PyBool(FALSE), i + 5)
    ELSE IF IsDigit(s[i]) \/ s[i] = Ord["-"] THEN ScanNumber(s, i)
    ELSE JsonFail

\* json.loads(s): one value between optional whitespace, nothing after it
JsonLoads(s) ==
    LET r == ScanOnce(s, SkipWs(s, 1))
    IN  IF ~r[1] THEN JsonFail
        ELSE IF SkipWs(s, r[3]) # Len(s) + 1 THEN JsonFail
        ELSE r

(***************************************************************************)
(* TCPProtocol                                                             *)
(***************************************************************************)
EncodeMessage(message) ==
    LET text          == IF IsDict(message) THEN JsonDumps(message) ELSE message[2]
        message_bytes == Utf8Encode(text)
        length        == Len(message_bytes)
    IN  StructPackI(length) \o message_bytes

\* The outcome of a call: <<"return", message, remaining_data>>, or
\* <<"raise", exception name>> when an exception leaves decode_message.
Return(message, remaining) == <<"return", message, remaining>>
Raise(exc) == <<"raise", exc>>

\* decode_message as it would be if it consumed the length prefix before finding
\* the body incomplete
DecodeMessageDropsHeader(data) ==
    IF Len(data) < 4 THEN Return(None, data)
    ELSE LET length == StructUnpackI(SubSeq(data, 1, 4))
         IN  IF Len(data) < 4 + length THEN Return(None, SubSeq(data, 5, Len(data)))
             ELSE LET message_bytes  == SubSeq(data, 5, 4 + length)
                      remaining_data == SubSeq(data, 5 + length, Len(data))
                      text           == Utf8Decode(message_bytes)
                  IN  IF ~text[1] THEN Raise("UnicodeDecodeError")
                      ELSE LET parsed == JsonLoads(text[2])
                           IN  IF parsed[1] THEN Return(parsed[2], remaining_data)
                               ELSE Return(PyStr(text[2]), remaining_data)

DecodeMessage(data) ==
    IF Len(data) < 4 THEN Return(None, data)
    ELSE LET length == StructUnpackI(SubSeq(data, 1, 4))
         IN  IF Len(data) < 4 + length THEN Return(None, data)
             ELSE LET message_bytes  == SubSeq(data, 5, 4 + length)
                      remaining_data == SubSeq(data, 5 + length, Len(data))
                      text           == Utf8Decode(message_bytes)
                  IN  IF ~text[1] THEN Raise("UnicodeDecodeError")
                      ELSE LET parsed == JsonLoads(text[2])
                           IN  IF parsed[1] THEN Return(parsed[2], remaining_data)
                               ELSE Return(PyStr(text[2]), remaining_data)

(***************************************************************************)
(* Bounds and inputs of the model                                          *)
(***************************************************************************)
\* messages encoded back to back on one stream
MaxMsgs == 2

\* connections the server accepts
MaxConn == 3

\* frames the clients send to the server, all connections together
MaxSend == 1

\* readings of a wall clock: 0..MaxTime
MaxTime == 1

\* seconds the server's clock advances while the server is constructed and
\* started
MaxClock == 3

\* connect calls made on one TCPClient
MaxConnects == 2

\* send_message calls made on one TCPClient
MaxCalls == 1

\* frames the server writes to the client's connections in all
MaxWrites == 1

\* socket read chunk size: recv(4096)
RecvSize == 4096

Min(a, b) == IF a < b THEN a ELSE b

SeqsUpTo(S, n) == UNION {[1..k -> S] : k \in 0..n}

\* structured messages passed to encode_message
DictMessages ==
    { PyDict(<< <<Text(<<"a">>), PyInt(1)>> >>),
      PyDict(<< <<Text(<<"k">>), PyStr(Text(<<"é">>))>>, <<Text(<<"n">>), None>> >>) }

\* plain-text payloads passed to encode_message
TextMessages ==
    { PyStr(Text(<<"h", "i">>)), PyStr(Text(<<"é">>)), PyStr(<<>>),
      PyStr(Text(<<"1">>)), PyStr(Text(<<"n", "u", "l", "l">>)) }

Messages == DictMessages \cup TextMessages

\* byte streams of a peer that does not use encode_message: a payload that is
\* not UTF-8, a payload that is malformed JSON, a declared length that never
\* arrives, a header cut short
RawStreams ==
    { <<0, 0, 0, 1, 255>>,
      <<0, 0, 0, 3>> \o Text(<<"{", "\"", "}">>),
      <<0, 0, 1, 0>> \o Text(<<"h", "i">>),
      <<0, 0, 0>> }

\* dict keys of the protocol's messages
K_type == Text(<<"t", "y", "p", "e">>)
K_content == Text(<<"c", "o", "n", "t", "e", "n", "t">>)
K_from_client == Text(<<"f", "r", "o", "m", "_", "c", "l", "i", "e", "n", "t">>)
K_recipients == Text(<<"r", "e", "c", "i", "p", "i", "e", "n", "t", "s">>)
K_client_id == Text(<<"c", "l", "i", "e", "n", "t", "_", "i", "d">>)
K_message == Text(<<"m", "e", "s", "s", "a", "g", "e">>)
K_timestamp == Text(<<"t", "i", "m", "e", "s", "t", "a", "m", "p">>)
K_pong_timestamp == Text(<<"p","o","n","g","_","t","i","m","e","s","t","a","m","p">>)
K_ping_timestamp == Text(<<"p", "i", "n", "g", "_">>) \o K_timestamp
K_original_message == Text(<<"o", "r", "i", "g", "i", "n", "a", "l", "_">>) \o K_message
K_original_text == Text(<<"o", "r", "i", "g", "i", "n", "a", "l", "_", "t", "e", "x", "t">>)
K_from_server == Text(<<"f", "r", "o", "m", "_", "s", "e", "r", "v", "e", "r">>)
K_echoed_by == Text(<<"e", "c", "h", "o", "e", "d", "_", "b", "y">>)
K_connected_clients ==
    Text(<<"c", "o", "n", "n", "e", "c", "t", "e", "d", "_", "c", "l", "i", "e", "n", "t", "s">>)
K_uptime_seconds ==
    Text(<<"u", "p", "t", "i", "m", "e", "_", "s", "e", "c", "o", "n", "d", "s">>)
K_total_messages ==
    Text(<<"t", "o", "t", "a", "l", "_", "m", "e", "s", "s", "a", "g", "e", "s">>)

\* str values of the protocol's messages
S_ping == Text(<<"p", "i", "n", "g">>)
S_pong == Text(<<"p", "o", "n", "g">>)
S_echo == Text(<<"e", "c", "h", "o">>)
S_echo_response == S_echo \o Text(<<"_", "r", "e", "s", "p", "o", "n", "s", "e">>)
S_broadcast == Text(<<"b", "r", "o", "a", "d", "c", "a", "s", "t">>)
S_broadcast_sent == S_broadcast \o Text(<<"_", "s", "e", "n", "t">>)
S_get_stats == Text(<<"g", "e", "t", "_", "s", "t", "a", "t", "s">>)
S_server_stats == Text(<<"s", "e", "r", "v", "e", "r", "_", "s", "t", "a", "t", "s">>)
S_response == Text(<<"r", "e", "s", "p", "o", "n", "s", "e">>)
S_welcome == Text(<<"w", "e", "l", "c", "o", "m", "e">>)
S_unknown == Text(<<"u", "n", "k", "n", "o", "w", "n">>)
S_hi == Text(<<"h", "i">>)
S_null == Text(<<"n", "u", "l", "l">>)
S_tcp_server == Text(<<"T", "C", "P", " ", "S", "e", "r", "v", "e", "r">>)
S_welcome_text == Text(<<"W", "e", "l", "c", "o", "m", "e", " ", "t", "o", " ">>) \o S_tcp_server \o
                  Text(<<"!">>)

\* dict.get(key, default)
Get(d, key, default) ==
    IF \E i \in 1..Len(d[2]) : d[2][i][1] = key
    THEN d[2][CHOOSE i \in 1..Len(d[2]) : d[2][i][1] = key][2]
    ELSE default

\* datetime.now(): what a wall clock can read; the clocks of the server and of a
\* client are not related
Times == 0..MaxTime

\* datetime.isoformat, of which the model keeps that a later reading gives a
\* later string: the reading t as the one digit t
IsoFormat(t) == PyStr(<<48 + t>>)

\* a < b for two str, as Python compares them: code point by code point
RECURSIVE StrLess(_, _)
StrLess(a, b) ==
    IF b = <<>> THEN FALSE
    ELSE IF a = <<>> THEN TRUE
    ELSE IF Head(a) # Head(b) THEN Head(a) < Head(b)
    ELSE StrLess(Tail(a), Tail(b))

\* TCPClient.ping with the client's clock at t, and TCPClient.get_server_stats
\* (client_info of the first and timestamp of the second, which the server
\* does not read, are left out)
PingRequest(t) ==
    PyDict(<< <<K_type, PyStr(S_ping)>>, <<K_timestamp, IsoFormat(t)>> >>)

StatsRequest == PyDict(<< <<K_type, PyStr(S_get_stats)>> >>)

\* TCPClient.echo(content) (its timestamp, which the server does not read, is
\* left out)
EchoRequest ==
    PyDict(<< <<K_type, PyStr(S_echo)>>, <<K_content, PyStr(S_hi)>> >>)

\* TCPClient.send_custom_message with a type the server does not know, and a
\* dict without the key 'type'
CustomRequest == PyDict(<< <<K_type, PyStr(Text(<<"x">>))>> >>)
UntypedRequest == PyDict(<< <<K_content, PyStr(S_hi)>> >>)

\* frames the clients of the server send: a broadcast request, two plain-text
\* payloads ("hi", and "null", which is JSON), a frame whose payload is not
\* UTF-8, pings, a statistics request, an echo request, and two dicts whose
\* type is unknown or missing
BroadcastRequest ==
    PyDict(<< <<K_type, PyStr(S_broadcast)>>, <<K_content, PyStr(S_hi)>> >>)

ClientFrames ==
    { EncodeMessage(BroadcastRequest),
      EncodeMessage(PyStr(S_hi)),
      EncodeMessage(PyStr(S_null)),
      <<0, 0, 0, 1, 255>>,
      EncodeMessage(StatsRequest),
      EncodeMessage(EchoRequest),
      EncodeMessage(CustomRequest),
      EncodeMessage(UntypedRequest) }
    \cup {EncodeMessage(PingRequest(t)) : t \in Times}

VARIABLES
    \* ---- a byte stream into TCPClient._receive_messages ----
    sent,             \* the messages the peer encoded onto the stream, in order
    wire,             \* bytes of the stream the socket has not yet returned
    client_connected, \* TCPClient.connected
    client_buffer,    \* TCPClient.buffer
    received,         \* the messages handed to message_callback, in order
    rx,               \* position of _receive_messages: "recv", "decode", "done"
    last_decode,      \* the last decode_message call: <<data, outcome>>, or <<>>
    client_sock,      \* TRUE while TCPClient.socket is open
    dis,              \* position of the caller of TCPClient.disconnect
    seen_at_return,   \* callbacks made when disconnect returned
    \* ---- a TCPClient over its connections ----
    csocket,          \* TCPClient.socket: 0 for None, or the socket's number
    sockets,          \* the sockets connect created, by number
    receive_thread,   \* TCPClient.receive_thread: 0 for None, or its number
    rthreads,         \* the receive threads connect started, by number
    user,             \* position of the thread that calls the client's methods
    calls,            \* log of the send_message calls
    \* ---- the caller of TCPServer() and of TCPServer.start ----
    life,             \* its position: "new", "constructed", "socket", "bound",
                      \* "serving" (in the accept loop), "returned", "raised"
    clock,            \* datetime.now() of the server's host, in seconds
    start_time,       \* TCPServer.start_time
    start_at,         \* the clock when start was called
    start_error,      \* the exception start caught, or "none"
    reports,          \* <<uptime_seconds reported, clock then>> of each get_stats
    \* ---- TCPServer ----
    server_running,   \* TCPServer.running
    server_socket,    \* TRUE while the listening socket is open
    clients,          \* TCPServer.clients: the dict's entry table
    message_count,    \* TCPServer.message_count
    \* ---- TCPClientHandler, one per accepted connection ----
    nclients,         \* connections the clients make in all
    nconn,            \* handlers constructed so far: 1..nconn exist
    client_address,   \* handler -> remote port
    client_socket,    \* handler -> TRUE while its socket is open
    running,          \* handler -> TCPClientHandler.running
    buffer,           \* handler -> TCPClientHandler.buffer
    \* ---- the remote end of each connection ----
    out,              \* handler -> messages written to its socket, in order
    nsent,            \* frames read from the peers so far
    nframes,          \* frames the clients send in all
    \* ---- threads: the accept loop, one per handler, the caller of stop ----
    pc,               \* thread -> position in the code
    frame,            \* thread -> <<handler, return position>> of its _cleanup call
    acc_handler,      \* the accept loop's client_handler
    bc,               \* handler thread -> locals of its broadcast
    snapshot,         \* stop's list(self.clients.values()) still to visit
    \* ---- history ----
    registered,       \* handlers stored in the registry so far
    torn,             \* handler -> "no", "started", "done": progress of _cleanup
    fanouts,          \* log of the broadcast fan-outs
    events,           \* exceptions that left the code, and foreign removals
    dispatched        \* log of the requests answered by one message

userVars == <<client_sock, dis, seen_at_return>>

connVars == <<csocket, sockets, receive_thread, rthreads, user, calls>>

codecVars == <<sent, wire, client_connected, client_buffer, received, rx, last_decode,
               userVars, connVars>>

lifeVars == <<life, clock, start_time, start_at, start_error, reports>>
serverVars == <<server_running, server_socket, clients, message_count>>
handlerVars == <<nclients, nframes, nconn, client_address, client_socket, running, buffer>>
peerVars == <<out, nsent>>
threadVars == <<pc, frame, acc_handler, bc, snapshot>>
historyVars == <<registered, torn, fanouts, events, dispatched>>

tcpVars == <<lifeVars, serverVars, handlerVars, peerVars, threadVars, historyVars>>

vars == <<codecVars, tcpVars>>

Handlers == 1..MaxConn
AcceptThread == 0
MainThread == MaxConn + 1
Threads == 0..(MaxConn + 1)

(***************************************************************************)
(* The dict TCPServer.clients as CPython keeps it: a table of entries in   *)
(* insertion order, a deleted entry leaving an empty slot.  An entry is    *)
(* <<client_id, handler>>.                                                 *)
(***************************************************************************)
Empty == <<>>
Live(d) == {i \in 1..Len(d) : d[i] # Empty}
DictLen(d) == Cardinality(Live(d))
DictHas(d, k) == \E i \in Live(d) : d[i][1] = k
DictSet(d, k, v) ==
    IF DictHas(d, k)
    THEN [i \in 1..Len(d) |-> IF d[i] # Empty /\ d[i][1] = k THEN <<k, v>> ELSE d[i]]
    ELSE Append(d, <<k, v>>)
DictDel(d, k) ==
    [i \in 1..Len(d) |-> IF d[i] # Empty /\ d[i][1] = k THEN Empty ELSE d[i]]
DictGet(d, k) == d[CHOOSE i \in Live(d) : d[i][1] = k][2]

RECURSIVE DictValuesFrom(_, _)
DictValuesFrom(d, i) ==
    IF i > Len(d) THEN <<>>
    ELSE IF d[i] = Empty THEN DictValuesFrom(d, i + 1)
    ELSE <<d[i][2]>> \o DictValuesFrom(d, i + 1)

\* list(d.values())
DictValues(d) == DictValuesFrom(d, 1)

\* the handlers the registry holds
Members(d) == {d[i][2] : i \in Live(d)}

\* iter(d.items()): the position in the table, the size when created, and
\* the number of items still expected
DictIter(d) == [pos |-> 1, used |-> DictLen(d), len |-> DictLen(d)]

\* next(it): <<"RuntimeError">>, <<"StopIteration">> or <<"item", key, value, it>>
IterNext(d, it) ==
    IF it.used # DictLen(d) THEN <<"RuntimeError">>
    ELSE LET rest == {i \in Live(d) : i >= it.pos}
         IN  IF rest = {} THEN <<"StopIteration">>
             ELSE IF it.len = 0 THEN <<"RuntimeError">>
             ELSE LET i == CHOOSE j \in rest : \A k \in rest : j <= k
                  IN  <<"item", d[i][1], d[i][2],
                        [pos |-> i + 1, used |-> it.used, len |-> it.len - 1]>>

\* f"{client_address[0]}:{client_address[1]}" of a connection from host h
ClientId(port) == Text(<<"h", ":">>) \o DecimalDigits(port)

\* no _cleanup call in progress; otherwise <<handler, where it returns to,
\* whether the handler's socket was closed already when the call was made>>
NoFrame == <<0, "none", FALSE>>

NoBroadcast == [msg |-> None, it |-> DictIter(<<>>), fid |-> 0, loaded |-> 0]

\* the state of the server part while only the byte stream is examined, and
\* of the stream part while only the server is examined
TcpIdle ==
    /\ life = "new" /\ clock = 0 /\ start_time = 0 /\ start_at = 0
    /\ start_error = "none" /\ reports = <<>>
    /\ server_running = FALSE /\ server_socket = FALSE
    /\ clients = <<>> /\ message_count = 0
    /\ nclients = 0 /\ nframes = 0 /\ nconn = 0
    /\ client_address = [h \in Handlers |-> 0]
    /\ client_socket = [h \in Handlers |-> FALSE]
    /\ running = [h \in Handlers |-> FALSE]
    /\ buffer = [h \in Handlers |-> <<>>]
    /\ out = [h \in Handlers |-> <<>>]
    /\ nsent = 0
    /\ pc = [t \in Threads |-> "unstarted"]
    /\ frame = [t \in Threads |-> NoFrame]
    /\ acc_handler = 0
    /\ bc = [h \in Handlers |-> NoBroadcast]
    /\ snapshot = <<>>
    /\ registered = {} /\ torn = [h \in Handlers |-> "no"]
    /\ fanouts = <<>> /\ events = {} /\ dispatched = <<>>

\* socket numbers, which are also the numbers of the threads started for them
Conns == 1..MaxConnects

\* a socket: open until close(), linked when its connect succeeded, its peer
\* open until the server closes, the bytes the server wrote that no recv has
\* returned yet, what the client wrote, and the frames the server wrote
NoSocket == [open |-> FALSE, linked |-> FALSE, peer |-> FALSE, inbound |-> <<>>,
             written |-> <<>>, frames |-> 0]

\* a receive thread: where it is, and the socket of its recv call
NoThread == [pos |-> "unstarted", sock |-> 0]

\* TCPClient.__init__: socket None, receive_thread None
ConnIdle ==
    /\ csocket = 0 /\ receive_thread = 0
    /\ sockets = [c \in Conns |-> NoSocket]
    /\ rthreads = [c \in Conns |-> NoThread]
    /\ user = "idle" /\ calls = <<>>

CodecIdle ==
    /\ ConnIdle
    /\ sent = <<>> /\ wire = <<>>
    /\ client_connected = FALSE /\ client_buffer = <<>>
    /\ received = <<>> /\ rx = "unstarted" /\ last_decode = <<>>
    /\ client_sock = FALSE /\ dis = "idle" /\ seen_at_return = 0

(***************************************************************************)
(* TCPClient._receive_messages over a connected socket                     *)
(***************************************************************************)
CodecInit ==
    /\ \/ /\ sent \in SeqsUpTo(Messages, MaxMsgs)
          /\ sent # <<>>
          /\ wire = Concat([i \in 1..Len(sent) |-> EncodeMessage(sent[i])])
       \/ /\ sent = <<>>
          /\ wire \in RawStreams
    /\ client_connected = TRUE
    /\ client_buffer = <<>>
    /\ received = <<>>
    /\ rx = "recv"
    /\ last_decode = <<>>
    /\ client_sock = TRUE /\ dis = "idle" /\ seen_at_return = 0
    /\ ConnIdle
    /\ TcpIdle

\* data = self.socket.recv(4096) returns k bytes; self.buffer += data
ClientRecv ==
    /\ rx = "recv"
    /\ client_connected
    /\ \E k \in 1..Min(Len(wire), RecvSize) :
          /\ client_buffer' = client_buffer \o SubSeq(wire, 1, k)
          /\ wire' = SubSeq(wire, k + 1, Len(wire))
    /\ rx' = "decode"
    /\ last_decode' = <<>>
    /\ UNCHANGED <<sent, client_connected, received, userVars, connVars, tcpVars>>

\* recv returns b'' (the peer closed): break, finally: connected = False
ClientRecvEof ==
    /\ rx = "recv"
    /\ client_connected
    /\ wire = <<>>
    /\ rx' = "done"
    /\ client_connected' = FALSE
    /\ last_decode' = <<>>
    /\ UNCHANGED <<sent, wire, client_buffer, received, userVars, connVars, tcpVars>>

\* one pass of the inner loop: message, self.buffer = decode_message(self.buffer)
\* then _handle_received_message(message), or break when message is None
ClientDecode ==
    /\ rx = "decode"
    /\ \E outcome \in {DecodeMessage(client_buffer)} :
          /\ last_decode' = <<client_buffer, outcome>>
          /\ IF outcome[1] = "raise"
             THEN \* except Exception ... finally: self.connected = False
                  /\ rx' = "done"
                  /\ client_connected' = FALSE
                  /\ UNCHANGED <<client_buffer, received>>
             ELSE /\ client_buffer' = outcome[3]
                  /\ IF outcome[2] = None
                     THEN /\ rx' = "recv"
                          /\ UNCHANGED received
                     ELSE /\ rx' = "decode"
                          /\ received' = Append(received, outcome[2])
                  /\ UNCHANGED client_connected
    /\ UNCHANGED <<sent, wire, userVars, connVars, tcpVars>>

CodecNext == ClientRecv \/ ClientRecvEof \/ ClientDecode

SpecCodec == CodecInit /\ [][CodecNext]_vars

(***************************************************************************)
(* TCPClient.disconnect, called by the user's thread while the receive     *)
(* thread runs                                                             *)
(***************************************************************************)
\* self.connected = False
DisconnectFlag ==
    /\ dis = "idle"
    /\ client_connected' = FALSE
    /\ dis' = "close"
    /\ UNCHANGED <<sent, wire, client_buffer, received, rx, last_decode, client_sock,
                   seen_at_return, connVars, tcpVars>>

\* self.socket.close()
DisconnectClose ==
    /\ dis = "close"
    /\ client_sock' = FALSE
    /\ dis' = "join"
    /\ UNCHANGED <<sent, wire, client_connected, client_buffer, received, rx,
                   last_decode, seen_at_return, connVars, tcpVars>>

\* self.receive_thread.join(timeout=1): it returns when the thread has ended, or
\* after one second with the thread still running
DisconnectJoin ==
    /\ dis = "join"
    /\ dis' = "returned"
    /\ seen_at_return' = Len(received)
    /\ UNCHANGED <<sent, wire, client_connected, client_buffer, received, rx,
                   last_decode, client_sock, connVars, tcpVars>>

\* The receive thread at the top of its loop once disconnect has cleared
\* self.connected: `while self.connected` is false, or recv raises on the closed
\* socket; finally: self.connected = False
ClientLoopExit ==
    /\ rx = "recv"
    /\ ~client_connected
    /\ rx' = "done"
    /\ last_decode' = <<>>
    /\ UNCHANGED <<sent, wire, client_connected, client_buffer, received, userVars,
                   connVars, tcpVars>>

\* The receive thread was blocked in recv already when disconnect began: close()
\* in another thread does not end that call, which returns the bytes that arrive
ClientRecvBlocked ==
    /\ rx = "recv"
    /\ ~client_connected
    /\ \E k \in 1..Min(Len(wire), RecvSize) :
          /\ client_buffer' = client_buffer \o SubSeq(wire, 1, k)
          /\ wire' = SubSeq(wire, k + 1, Len(wire))
    /\ rx' = "decode"
    /\ last_decode' = <<>>
    /\ UNCHANGED <<sent, client_connected, received, userVars, connVars, tcpVars>>

ClientNext ==
    \/ CodecNext
    \/ DisconnectFlag \/ DisconnectClose \/ DisconnectJoin
    \/ ClientLoopExit \/ ClientRecvBlocked

SpecClient == CodecInit /\ [][ClientNext]_vars

(***************************************************************************)
(* A TCPClient over its lifetime: connect, send_message, disconnect and    *)
(* connect again, called by one thread, with the receive threads that      *)
(* connect starts and the server end of each connection.                   *)
(***************************************************************************)
ClientInit == CodecIdle /\ TcpIdle

\* what the user's thread leaves alone
ClientRest == <<sent, wire, rx, last_decode, userVars, tcpVars>>

\* a socket just created, its connect having succeeded or not
NewSocket(connected) ==
    [open |-> TRUE, linked |-> connected, peer |-> connected, inbound |-> <<>>,
     written |-> <<>>, frames |-> 0]

\* connect, called while the client is not connected:
\* self.socket = socket.socket(...); self.socket.connect(...) succeeds
ConnectSocket ==
    /\ user = "idle"
    /\ ~client_connected
    /\ csocket < MaxConnects
    /\ csocket' = csocket + 1
    /\ sockets' = [sockets EXCEPT ![csocket + 1] = NewSocket(TRUE)]
    /\ user' = "connect"
    /\ UNCHANGED <<client_connected, client_buffer, received, receive_thread, rthreads,
                   calls, ClientRest>>

\* connect: self.socket.connect(...) raises; except Exception: return False
ConnectFails ==
    /\ user = "idle"
    /\ ~client_connected
    /\ csocket < MaxConnects
    /\ csocket' = csocket + 1
    /\ sockets' = [sockets EXCEPT ![csocket + 1] = NewSocket(FALSE)]
    /\ UNCHANGED <<client_connected, client_buffer, received, receive_thread, rthreads,
                   user, calls, ClientRest>>

\* connect: self.connected = True; self.receive_thread = Thread(...); start()
ConnectStart ==
    /\ user = "connect"
    /\ client_connected' = TRUE
    /\ receive_thread' = csocket
    /\ rthreads' = [rthreads EXCEPT ![csocket] = [pos |-> "top", sock |-> 0]]
    /\ user' = "idle"
    /\ UNCHANGED <<client_buffer, received, csocket, sockets, calls, ClientRest>>

\* what the log keeps of a send_message call: self.connected when it was
\* made, whether no connect had succeeded yet, whether self.socket had been
\* closed, whether the receive loop of the last connection had ended, what
\* the call returned and whether it wrote to the socket
Call(result, wrote) ==
    [connected |-> client_connected,
     never |-> receive_thread = 0,
     closed |-> csocket # 0 /\ ~sockets[csocket].open,
     ended |-> receive_thread # 0 /\ rthreads[receive_thread].pos = "done",
     result |-> result, wrote |-> wrote]

\* self.socket.send(encoded) can return: the socket is there, connected and
\* open
SocketSendCanSucceed ==
    csocket # 0 /\ sockets[csocket].open /\ sockets[csocket].linked

\* self.socket.send(encoded) can raise: self.socket is None, the socket is
\* closed or was never connected, or the peer has closed and the write is
\* refused
SocketSendCanFail ==
    IF csocket = 0 THEN TRUE
    ELSE ~sockets[csocket].open \/ ~sockets[csocket].peer

\* send_message as it would be without its test of self.connected
SendMessageUnchecked ==
    /\ user = "idle"
    /\ Len(calls) < MaxCalls
    /\ \/ /\ SocketSendCanSucceed
          /\ sockets' = [sockets EXCEPT ![csocket].written = Append(@, PyStr(S_hi))]
          /\ calls' = Append(calls, Call(TRUE, TRUE))
       \/ /\ SocketSendCanFail
          /\ calls' = Append(calls, Call(FALSE, FALSE))
          /\ UNCHANGED sockets
    /\ UNCHANGED <<client_connected, client_buffer, received, csocket, receive_thread,
                   rthreads, user, ClientRest>>

\* send_message: if not self.connected: return False; otherwise
\* self.socket.send(encoded) and return True, or return False when send raises
SendMessage ==
    /\ user = "idle"
    /\ Len(calls) < MaxCalls
    /\ IF ~client_connected
       THEN /\ calls' = Append(calls, Call(FALSE, FALSE))
            /\ UNCHANGED sockets
       ELSE \/ /\ SocketSendCanSucceed
               /\ sockets' = [sockets EXCEPT ![csocket].written =
                                 Append(@, PyStr(S_hi))]
               /\ calls' = Append(calls, Call(TRUE, TRUE))
            \/ /\ SocketSendCanFail
               /\ calls' = Append(calls, Call(FALSE, FALSE))
               /\ UNCHANGED sockets
    /\ UNCHANGED <<client_connected, client_buffer, received, csocket, receive_thread,
                   rthreads, user, ClientRest>>

\* disconnect: self.connected = False
Disconnect ==
    /\ user = "idle"
    /\ client_connected' = FALSE
    /\ user' = "close"
    /\ UNCHANGED <<client_buffer, received, csocket, sockets, receive_thread, rthreads,
                   calls, ClientRest>>

\* disconnect: if self.socket: self.socket.close()
DisconnectSocket ==
    /\ user = "close"
    /\ sockets' = IF csocket = 0 THEN sockets
                  ELSE [sockets EXCEPT ![csocket].open = FALSE]
    /\ user' = "join"
    /\ UNCHANGED <<client_connected, client_buffer, received, csocket, receive_thread,
                   rthreads, calls, ClientRest>>

\* disconnect: if self.receive_thread: self.receive_thread.join(timeout=1),
\* which returns when the thread has ended or after one second
DisconnectThread ==
    /\ user = "join"
    /\ user' = "idle"
    /\ UNCHANGED <<client_connected, client_buffer, received, csocket, sockets,
                   receive_thread, rthreads, calls, ClientRest>>

\* what a receive thread leaves alone
ThreadRest == <<csocket, receive_thread, user, calls, ClientRest>>

\* receive thread t leaves _receive_messages: finally: self.connected = False
Finish(t) ==
    /\ rthreads' = [rthreads EXCEPT ![t] = [pos |-> "done", sock |-> 0]]
    /\ client_connected' = FALSE

\* while self.connected: the test, and self.socket.recv is called on the
\* socket self.socket names now; on a closed socket the call raises
ReceiveTest(t) ==
    /\ rthreads[t].pos = "top"
    /\ IF client_connected /\ sockets[csocket].open
       THEN /\ rthreads' = [rthreads EXCEPT ![t] = [pos |-> "recv", sock |-> csocket]]
            /\ UNCHANGED client_connected
       ELSE Finish(t)
    /\ UNCHANGED <<client_buffer, received, sockets, ThreadRest>>

\* recv returns k bytes; self.buffer += data (a call that began before the
\* socket was closed by another thread still returns the bytes that arrive)
ReceiveData(t) ==
    /\ rthreads[t].pos = "recv"
    /\ LET c == rthreads[t].sock
       IN  \E k \in 1..Min(Len(sockets[c].inbound), RecvSize) :
              /\ client_buffer' = client_buffer \o SubSeq(sockets[c].inbound, 1, k)
              /\ sockets' = [sockets EXCEPT ![c].inbound =
                                SubSeq(@, k + 1, Len(@))]
    /\ rthreads' = [rthreads EXCEPT ![t].pos = "decode"]
    /\ UNCHANGED <<client_connected, received, ThreadRest>>

\* recv returns b'' (the server closed the connection): break; or recv raises
\* because the socket was closed by disconnect while the call was waiting
ReceiveEnd(t) ==
    /\ rthreads[t].pos = "recv"
    /\ LET c == rthreads[t].sock
       IN  \/ ~sockets[c].peer /\ sockets[c].inbound = <<>>
           \/ ~sockets[c].open
    /\ Finish(t)
    /\ UNCHANGED <<client_buffer, received, sockets, ThreadRest>>

\* one pass of the inner loop over self.buffer
ReceiveDecode(t) ==
    /\ rthreads[t].pos = "decode"
    /\ \E outcome \in {DecodeMessage(client_buffer)} :
          IF outcome[1] = "raise"
          THEN /\ Finish(t)
               /\ UNCHANGED <<client_buffer, received>>
          ELSE /\ client_buffer' = outcome[3]
               /\ IF outcome[2] = None
                  THEN /\ rthreads' = [rthreads EXCEPT ![t].pos = "top"]
                       /\ UNCHANGED received
                  ELSE /\ received' = Append(received, outcome[2])
                       /\ UNCHANGED rthreads
               /\ UNCHANGED client_connected
    /\ UNCHANGED <<sockets, ThreadRest>>

\* frames the server has written to the sockets 1..c
RECURSIVE Writes(_)
Writes(c) == IF c = 0 THEN 0 ELSE Writes(c - 1) + sockets[c].frames

\* the server writes a frame to connection c
ServerWrite(c) ==
    /\ sockets[c].peer
    /\ Writes(MaxConnects) < MaxWrites
    /\ sockets' = [sockets EXCEPT ![c].inbound = @ \o EncodeMessage(PyStr(S_hi)),
                                  ![c].frames = @ + 1]
    /\ UNCHANGED <<client_connected, client_buffer, received, rthreads, ThreadRest>>

\* the server closes connection c
ServerClose(c) ==
    /\ sockets[c].peer
    /\ sockets' = [sockets EXCEPT ![c].peer = FALSE]
    /\ UNCHANGED <<client_connected, client_buffer, received, rthreads, ThreadRest>>

ReconnectNext ==
    \/ ConnectSocket \/ ConnectFails \/ ConnectStart
    \/ SendMessage
    \/ Disconnect \/ DisconnectSocket \/ DisconnectThread
    \/ \E t \in Conns : \/ ReceiveTest(t) \/ ReceiveData(t)
                        \/ ReceiveEnd(t) \/ ReceiveDecode(t)
    \/ \E c \in Conns : ServerWrite(c) \/ ServerClose(c)

SpecReconnect == ClientInit /\ [][ReconnectNext]_vars

(***************************************************************************)
(* TCPServer and TCPClientHandler.  Every thread runs the code one step at *)
(* a time; a step holds at most one access to state other threads share.   *)
(* The wall-clock "timestamp" fields of the messages are not represented.  *)
(***************************************************************************)
\* TCPServer.__init__, then start() as far as the accept loop, with n clients
\* about to connect and f frames about to be sent
Started(n, f) ==
    /\ CodecIdle
    /\ life = "serving" /\ clock = 0 /\ start_time = 0 /\ start_at = 0
    /\ start_error = "none" /\ reports = <<>>
    /\ server_running = TRUE /\ server_socket = TRUE
    /\ clients = <<>> /\ message_count = 0
    /\ nclients = n /\ nframes = f /\ nconn = 0
    /\ client_address = [h \in Handlers |-> 0]
    /\ client_socket = [h \in Handlers |-> FALSE]
    /\ running = [h \in Handlers |-> FALSE]
    /\ buffer = [h \in Handlers |-> <<>>]
    /\ out = [h \in Handlers |-> <<>>]
    /\ nsent = 0
    /\ pc = [t \in Threads |-> IF t = AcceptThread THEN "accept"
                               ELSE IF t = MainThread THEN "main" ELSE "unstarted"]
    /\ frame = [t \in Threads |-> NoFrame]
    /\ acc_handler = 0
    /\ bc = [h \in Handlers |-> NoBroadcast]
    /\ snapshot = <<>>
    /\ registered = {} /\ torn = [h \in Handlers |-> "no"]
    /\ fanouts = <<>> /\ events = {} /\ dispatched = <<>>

Init == Started(MaxConn, MaxSend)

\* the connection of handler h is in order: socket open, no teardown begun
Intact(h) == client_socket[h] /\ torn[h] = "no"

\* self.client_socket.send(encoded) succeeds only on an open socket; it raises
\* on a closed one, and on an open one whose peer has gone (closed or reset),
\* which the peer may do at any time
SendCanSucceed(h) == client_socket[h]
SendCanFail(h) == TRUE

\* thread t calls handler._cleanup() and continues at ret when it returns
CallCleanup(t, handler, ret) ==
    /\ pc' = [pc EXCEPT ![t] = "cleanup_close"]
    /\ frame' = [frame EXCEPT ![t] = <<handler, ret, ~client_socket[handler]>>]

\* an exception raised in thread t: where the code continues
\*   accept loop:    except Exception in _accept_connections, the loop is over
\*   caller of stop: the exception leaves stop()
\*   handler thread: except Exception in _handle_client, then finally:
\*                   self._cleanup(); raised by that _cleanup, it ends the thread
ThrowIn(t, exc, seen) ==
    IF t = AcceptThread
    THEN /\ pc' = [pc EXCEPT ![t] = "acc_exit"]
         /\ frame' = [frame EXCEPT ![t] = NoFrame]
         /\ events' = events \cup seen \cup {<<t, exc, "accept", TRUE>>}
    ELSE IF t = MainThread
    THEN /\ pc' = [pc EXCEPT ![t] = "stop_raised"]
         /\ frame' = [frame EXCEPT ![t] = NoFrame]
         /\ events' = events \cup seen \cup {<<t, exc, "stop", TRUE>>}
    ELSE IF frame[t][2] = "done"
    THEN /\ pc' = [pc EXCEPT ![t] = "done"]
         /\ frame' = [frame EXCEPT ![t] = NoFrame]
         /\ events' = events \cup seen \cup {<<t, exc, "thread", Intact(t)>>}
    ELSE /\ CallCleanup(t, t, "done")
         /\ events' = events \cup seen \cup {<<t, exc, "loop", Intact(t)>>}

(***************************************************************************)
(* TCPClientHandler._cleanup, run by thread t for handler frame[t][1]      *)
(***************************************************************************)
\* _cleanup as it would be without self.running = False
CleanupCloseKeepsRunning(t) ==
    /\ pc[t] = "cleanup_close"
    /\ LET h == frame[t][1]
       IN  /\ client_socket' = [client_socket EXCEPT ![h] = FALSE]
           /\ torn' = [torn EXCEPT ![h] = IF @ = "no" THEN "started" ELSE @]
    /\ pc' = [pc EXCEPT ![t] = "cleanup_check"]
    /\ UNCHANGED <<codecVars, lifeVars, serverVars, nclients, nframes, nconn, client_address, buffer, peerVars,
                   running, frame, acc_handler, bc, snapshot, registered, fanouts, events, dispatched>>

\* self.running = False; self.client_socket.close()
CleanupClose(t) ==
    /\ pc[t] = "cleanup_close"
    /\ LET h == frame[t][1]
       IN  /\ running' = [running EXCEPT ![h] = FALSE]
           /\ client_socket' = [client_socket EXCEPT ![h] = FALSE]
           /\ torn' = [torn EXCEPT ![h] = IF @ = "no" THEN "started" ELSE @]
    /\ pc' = [pc EXCEPT ![t] = "cleanup_check"]
    /\ UNCHANGED <<codecVars, lifeVars, serverVars, nclients, nframes, nconn, client_address, buffer, peerVars,
                   frame, acc_handler, bc, snapshot, registered, fanouts, events, dispatched>>

\* if self.client_id in self.server.clients:
CleanupCheck(t) ==
    /\ pc[t] = "cleanup_check"
    /\ LET h == frame[t][1]
       IN  IF DictHas(clients, ClientId(client_address[h]))
           THEN /\ pc' = [pc EXCEPT ![t] = "cleanup_del"]
                /\ UNCHANGED <<frame, torn>>
           ELSE /\ pc' = [pc EXCEPT ![t] = frame[t][2]]
                /\ frame' = [frame EXCEPT ![t] = NoFrame]
                /\ torn' = [torn EXCEPT ![h] = "done"]
    /\ UNCHANGED <<codecVars, lifeVars, serverVars, handlerVars, peerVars, acc_handler, bc,
                   snapshot, registered, fanouts, events, dispatched>>

\* del self.server.clients[self.client_id]
CleanupDel(t) ==
    /\ pc[t] = "cleanup_del"
    /\ LET h  == frame[t][1]
           id == ClientId(client_address[h])
       IN  /\ torn' = [torn EXCEPT ![h] = "done"]
           /\ IF DictHas(clients, id)
              THEN /\ clients' = DictDel(clients, id)
                   /\ pc' = [pc EXCEPT ![t] = frame[t][2]]
                   /\ frame' = [frame EXCEPT ![t] = NoFrame]
                   /\ events' = IF DictGet(clients, id) = h THEN events
                                ELSE events \cup {<<t, "removed", "cleanup", frame[t][3]>>}
              ELSE /\ ThrowIn(t, "KeyError", {<<t, "KeyError", "cleanup", frame[t][3]>>})
                   /\ UNCHANGED clients
    /\ UNCHANGED <<codecVars, lifeVars, server_running, server_socket, message_count, handlerVars,
                   peerVars, acc_handler, bc, snapshot, registered, fanouts, dispatched>>

(***************************************************************************)
(* TCPServer._accept_connections                                           *)
(***************************************************************************)
\* the ports a new connection can come from: a port never seen, or the port of
\* an earlier connection whose socket is closed (its peer having closed too)
FreePorts == {nconn + 1} \cup {client_address[g] : g \in {x \in 1..nconn : ~client_socket[x]}}

\* client_socket, client_address = self.server_socket.accept()
\* client_handler = TCPClientHandler(client_socket, client_address, self)
\* The thread is at accept() having found self.running true; a thread blocked in
\* accept() when the listening socket is closed may still be handed a connection.
Accept ==
    /\ pc[AcceptThread] = "accept"
    /\ nconn < nclients
    /\ \E port \in FreePorts :
          LET h == nconn + 1
          IN  /\ nconn' = h
              /\ client_address' = [client_address EXCEPT ![h] = port]
              /\ client_socket' = [client_socket EXCEPT ![h] = TRUE]
              /\ running' = [running EXCEPT ![h] = TRUE]
              /\ buffer' = [buffer EXCEPT ![h] = <<>>]
              /\ acc_handler' = h
    /\ pc' = [pc EXCEPT ![AcceptThread] = "acc_register"]
    /\ UNCHANGED <<codecVars, lifeVars, serverVars, nclients, nframes, peerVars, frame, bc, snapshot,
                   historyVars>>

\* accept() raises once the listening socket is closed; self.running is False by
\* then, so nothing is printed and the loop is over
AcceptClosed ==
    /\ pc[AcceptThread] = "accept"
    /\ ~server_socket
    /\ pc' = [pc EXCEPT ![AcceptThread] = "acc_exit"]
    /\ UNCHANGED <<codecVars, lifeVars, serverVars, handlerVars, peerVars, frame, acc_handler, bc,
                   snapshot, historyVars>>

\* self.clients[client_id] = client_handler
AcceptRegister ==
    /\ pc[AcceptThread] = "acc_register"
    /\ clients' = DictSet(clients, ClientId(client_address[acc_handler]), acc_handler)
    /\ registered' = registered \cup {acc_handler}
    /\ pc' = [pc EXCEPT ![AcceptThread] = "acc_start"]
    /\ UNCHANGED <<codecVars, lifeVars, server_running, server_socket, message_count, handlerVars,
                   peerVars, frame, acc_handler, bc, snapshot, torn, fanouts, events, dispatched>>

Welcome(h) ==
    PyDict(<< <<K_type, PyStr(S_welcome)>>,
              <<K_client_id, PyStr(ClientId(client_address[h]))>>,
              <<K_message, PyStr(S_welcome_text)>> >>)

\* client_handler.start() as it would be if start were called a second time
HandlerStartTwice ==
    /\ pc[AcceptThread] = "acc_start"
    /\ \/ /\ SendCanSucceed(acc_handler)
          /\ out' = [out EXCEPT ![acc_handler] =
                        @ \o <<Welcome(acc_handler), Welcome(acc_handler)>>]
          /\ pc' = [pc EXCEPT ![AcceptThread] = "acc_spawn"]
          /\ UNCHANGED frame
       \/ /\ SendCanFail(acc_handler)
          /\ CallCleanup(AcceptThread, acc_handler, "acc_spawn")
          /\ UNCHANGED out
    /\ UNCHANGED <<codecVars, lifeVars, serverVars, handlerVars, nsent, acc_handler,
                   bc, snapshot, historyVars>>

\* client_handler.start(): self.send_message(welcome)
HandlerStart ==
    /\ pc[AcceptThread] = "acc_start"
    /\ \/ /\ SendCanSucceed(acc_handler)
          /\ out' = [out EXCEPT ![acc_handler] = Append(@, Welcome(acc_handler))]
          /\ pc' = [pc EXCEPT ![AcceptThread] = "acc_spawn"]
          /\ UNCHANGED frame
       \/ /\ SendCanFail(acc_handler)
          /\ CallCleanup(AcceptThread, acc_handler, "acc_spawn")
          /\ UNCHANGED out
    /\ UNCHANGED <<codecVars, lifeVars, serverVars, handlerVars, nsent, acc_handler,
                   bc, snapshot, historyVars>>

\* client_handler.start(): thread.start(); then while self.running:
HandlerSpawn ==
    /\ pc[AcceptThread] = "acc_spawn"
    /\ pc' = [pc EXCEPT ![AcceptThread] = IF server_running THEN "accept" ELSE "acc_exit",
                         ![acc_handler] = "recv"]
    /\ UNCHANGED <<codecVars, lifeVars, serverVars, handlerVars, peerVars, frame, acc_handler, bc,
                   snapshot, historyVars>>

(***************************************************************************)
(* TCPClientHandler._handle_client and the handlers it dispatches to       *)
(***************************************************************************)
\* sequences of 1..n frames, as the bytes one recv returns
RECURSIVE FrameRuns(_)
FrameRuns(n) ==
    IF n <= 0 THEN {}
    ELSE ClientFrames \cup {f \o g : f \in ClientFrames, g \in FrameRuns(n - 1)}

\* while self.running: data = self.client_socket.recv(4096); self.buffer += data
\* recv returns what the peer wrote: one or more frames (never more than 4096
\* bytes, with the frames and bounds of the model)
HandlerRecv(h) ==
    /\ pc[h] = "recv"
    /\ running[h] /\ client_socket[h]
    /\ \E n \in 1..(nframes - nsent) :
          /\ nsent' = nsent + n
          /\ \E data \in {d \in FrameRuns(n) : Len(d) <= RecvSize} :
                buffer' = [buffer EXCEPT ![h] = @ \o data]
    /\ pc' = [pc EXCEPT ![h] = "decode"]
    /\ UNCHANGED <<codecVars, lifeVars, serverVars, nclients, nframes, nconn, client_address,
                   client_socket, running, out, frame, acc_handler, bc, snapshot, historyVars>>

\* The loop ends: self.running is False, or recv returns b'' (the peer closed),
\* or recv raises (ConnectionResetError, or OSError on a socket that a _cleanup
\* closed); finally: self._cleanup()
HandlerRecvEnd(h) ==
    /\ pc[h] = "recv"
    /\ CallCleanup(h, h, "done")
    /\ UNCHANGED <<codecVars, lifeVars, serverVars, handlerVars, peerVars, acc_handler, bc,
                   snapshot, historyVars>>

\* TCPServer.get_stats (server_start_time and current_time are left out)
GetStats ==
    PyDict(<< <<K_type, PyStr(S_server_stats)>>,
              <<K_connected_clients, PyInt(DictLen(clients))>>,
              <<K_uptime_seconds, PyInt(clock - start_time)>>,
              <<K_total_messages, PyInt(message_count)>> >>)

\* _handle_ping reading the key 'ping_timestamp' of the request
HandlePingWrongKey(h, message, now) ==
    PyDict(<< <<K_type, PyStr(S_pong)>>,
              <<K_ping_timestamp, Get(message, K_ping_timestamp, None)>>,
              <<K_pong_timestamp, IsoFormat(now)>>,
              <<K_client_id, PyStr(ClientId(client_address[h]))>> >>)

\* _handle_ping: pong, the server's clock reading now
HandlePing(h, message, now) ==
    PyDict(<< <<K_type, PyStr(S_pong)>>,
              <<K_ping_timestamp, Get(message, K_timestamp, None)>>,
              <<K_pong_timestamp, IsoFormat(now)>>,
              <<K_client_id, PyStr(ClientId(client_address[h]))>> >>)

\* the plain-text branch answering with the text's type name
EchoTextTypeName(message) ==
    PyDict(<< <<K_type, PyStr(S_echo)>>,
              <<K_original_text, PyStr(Text(<<"s", "t", "r">>))>>,
              <<K_from_server, PyBool(TRUE)>> >>)

\* _process_message, the branch for a message that is not a dict
EchoText(message) ==
    PyDict(<< <<K_type, PyStr(S_echo)>>,
              <<K_original_text, message>>,
              <<K_from_server, PyBool(TRUE)>> >>)

\* the default branch answering with the type it was asked for
DefaultResponseEchoesType(message) ==
    PyDict(<< <<K_type, Get(message, K_type, PyStr(S_unknown))>>,
              <<K_original_message, message>>,
              <<K_from_server, PyBool(TRUE)>> >>)

\* _process_message, the default branch for a dict of any other type
DefaultResponse(message) ==
    PyDict(<< <<K_type, PyStr(S_response)>>,
              <<K_original_message, message>>,
              <<K_from_server, PyBool(TRUE)>> >>)

\* the message _process_message sends back, for every type but broadcast, the
\* server's clock reading now (the 'timestamp' field that every response but
\* pong carries is left out)
Reply(h, message, now) ==
    IF IsDict(message)
    THEN LET msg_type == Get(message, K_type, PyStr(S_unknown))
         IN  IF msg_type = PyStr(S_ping)
             THEN HandlePing(h, message, now)
             ELSE IF msg_type = PyStr(S_echo)
             THEN PyDict(<< <<K_type, PyStr(S_echo_response)>>,
                            <<K_content, Get(message, K_content, PyStr(<<>>))>>,
                            <<K_echoed_by, PyStr(S_tcp_server)>> >>)
             ELSE IF msg_type = PyStr(S_get_stats)
             THEN GetStats
             ELSE DefaultResponse(message)
    ELSE EchoText(message)

IsBroadcast(message) ==
    IsDict(message) /\ Get(message, K_type, PyStr(S_unknown)) = PyStr(S_broadcast)

\* _handle_broadcast: broadcast_msg
BroadcastMsg(h, message) ==
    PyDict(<< <<K_type, PyStr(S_broadcast)>>,
              <<K_from_client, PyStr(ClientId(client_address[h]))>>,
              <<K_content, Get(message, K_content, PyStr(<<>>))>> >>)

\* the bytes of data that are no longer in remaining_data
Consumed(data, remaining) == SubSeq(data, 1, Len(data) - Len(remaining))

\* the sends made by the fan-outs fs: of all of them, or of those whose update
\* of the counter is complete
RECURSIVE SentBy(_, _)
SentBy(fs, all) ==
    IF fs = <<>> THEN 0
    ELSE (IF all \/ Head(fs).counted THEN Len(Head(fs).sent) ELSE 0)
         + SentBy(Tail(fs), all)

\* what the log keeps of a request answered by one message: who asked, the
\* bytes decode_message consumed, the message it returned, the response built,
\* whether its send succeeded, and the registry, the counter and the sends of
\* the broadcasts as they were
Answered(h, data, message, response, ok) ==
    [handler |-> h, data |-> data, message |-> message, response |-> response,
     ok |-> ok,
     size |-> DictLen(clients), member |-> h \in Members(clients),
     count |-> message_count,
     sent_counted |-> SentBy(fanouts, FALSE), sent_all |-> SentBy(fanouts, TRUE)]

\* One pass of the inner loop: message, self.buffer = decode_message(self.buffer);
\* on None: break, back to the outer loop; otherwise _process_message(message):
\* its reply is sent, or the broadcast's iteration over self.clients begins.
HandlerDecode(h) ==
    /\ pc[h] = "decode"
    /\ \E outcome \in {DecodeMessage(buffer[h])} :
          IF outcome[1] = "raise"
          THEN /\ ThrowIn(h, outcome[2], {})
               /\ UNCHANGED <<buffer, out, bc, fanouts, dispatched>>
          ELSE /\ buffer' = [buffer EXCEPT ![h] = outcome[3]]
               /\ IF outcome[2] = None
                  THEN /\ pc' = [pc EXCEPT ![h] = "recv"]
                       /\ UNCHANGED <<out, bc, frame, fanouts, events, dispatched>>
                  ELSE IF IsBroadcast(outcome[2])
                  THEN /\ bc' = [bc EXCEPT ![h] =
                                   [msg |-> BroadcastMsg(h, outcome[2]),
                                    it |-> DictIter(clients),
                                    fid |-> Len(fanouts) + 1, loaded |-> 0]]
                       /\ fanouts' = Append(fanouts,
                                   [from |-> h, members |-> Members(clients),
                                    size |-> DictLen(clients), sent |-> <<>>,
                                    status |-> "iterating", alive |-> {},
                                    size_end |-> 0, recipients |-> 0,
                                    before |-> 0, counted |-> FALSE, delta |-> 0,
                                    failed |-> {}])
                       /\ pc' = [pc EXCEPT ![h] = "bc_next"]
                       /\ UNCHANGED <<out, frame, events, dispatched>>
                  ELSE /\ \E response \in {Reply(h, outcome[2], now) : now \in Times} :
                            \/ /\ SendCanSucceed(h)
                               /\ out' = [out EXCEPT ![h] = Append(@, response)]
                               /\ dispatched' = Append(dispatched,
                                      Answered(h, Consumed(buffer[h], outcome[3]),
                                               outcome[2], response, TRUE))
                               /\ UNCHANGED <<pc, frame>>
                            \/ /\ SendCanFail(h)
                               /\ CallCleanup(h, h, "decode")
                               /\ dispatched' = Append(dispatched,
                                      Answered(h, Consumed(buffer[h], outcome[3]),
                                               outcome[2], response, FALSE))
                               /\ UNCHANGED out
                       /\ UNCHANGED <<bc, fanouts, events>>
    /\ UNCHANGED <<codecVars, lifeVars, serverVars, nclients, nframes, nconn, client_address, client_socket, running,
                   nsent, acc_handler, snapshot, registered, torn>>

(***************************************************************************)
(* TCPServer.broadcast_message, called by _handle_broadcast                *)
(***************************************************************************)
SetFanout(fid, field, value) == [fanouts EXCEPT ![fid] = [@ EXCEPT ![field] = value]]

\* the fan-out fid is over: how it ended, the registry size then, and which of
\* the connections registered at its start are still in order
EndFanout(fid, how) ==
    [fanouts EXCEPT ![fid] = [@ EXCEPT !.status = how,
                                       !.size_end = DictLen(clients),
                                       !.alive = {m \in fanouts[fid].members : Intact(m)}]]

\* for client_id, client_handler in self.clients.items():
\*     if client_id != exclude_client: client_handler.send_message(message)
BroadcastNext(h) ==
    /\ pc[h] = "bc_next"
    /\ \E nx \in {IterNext(clients, bc[h].it)} :
          IF nx[1] = "RuntimeError"
          THEN /\ ThrowIn(h, "RuntimeError", {})
               /\ fanouts' = EndFanout(bc[h].fid, "aborted")
               /\ UNCHANGED <<out, bc>>
          ELSE IF nx[1] = "StopIteration"
          THEN /\ pc' = [pc EXCEPT ![h] = "bc_load"]
               /\ fanouts' = EndFanout(bc[h].fid, "sent")
               /\ UNCHANGED <<out, bc, frame, events>>
          ELSE /\ bc' = [bc EXCEPT ![h].it = nx[4]]
               /\ IF nx[2] = ClientId(client_address[h])
                  THEN UNCHANGED <<out, pc, frame, fanouts, events>>
                  ELSE /\ \/ /\ SendCanSucceed(nx[3])
                             /\ out' = [out EXCEPT ![nx[3]] = Append(@, bc[h].msg)]
                             /\ fanouts' = SetFanout(bc[h].fid, "sent",
                                              Append(fanouts[bc[h].fid].sent, nx[3]))
                             /\ UNCHANGED <<pc, frame>>
                          \/ /\ SendCanFail(nx[3])
                             /\ CallCleanup(h, nx[3], "bc_next")
                             /\ fanouts' = [fanouts EXCEPT ![bc[h].fid] =
                                   [@ EXCEPT !.sent = Append(@, nx[3]),
                                             !.failed = @ \cup {nx[3]}]]
                             /\ UNCHANGED out
                       /\ UNCHANGED events
    /\ UNCHANGED <<codecVars, lifeVars, serverVars, handlerVars, nsent, acc_handler,
                   snapshot, registered, torn, dispatched>>

\* self.message_count += len(self.clients): the load of message_count
BroadcastLoad(h) ==
    /\ pc[h] = "bc_load"
    /\ bc' = [bc EXCEPT ![h].loaded = message_count]
    /\ fanouts' = SetFanout(bc[h].fid, "before", message_count)
    /\ pc' = [pc EXCEPT ![h] = "bc_store"]
    /\ UNCHANGED <<codecVars, lifeVars, serverVars, handlerVars, peerVars, frame, acc_handler,
                   snapshot, registered, torn, events, dispatched>>

\* self.message_count += len(self.clients): len, add and store
BroadcastStore(h) ==
    /\ pc[h] = "bc_store"
    /\ message_count' = bc[h].loaded + DictLen(clients)
    /\ pc' = [pc EXCEPT ![h] = "bc_load1"]
    /\ UNCHANGED <<codecVars, lifeVars, server_running, server_socket, clients, handlerVars,
                   peerVars, frame, acc_handler, bc, snapshot, historyVars>>

\* if exclude_client: self.message_count -= 1: the load
BroadcastLoad1(h) ==
    /\ pc[h] = "bc_load1"
    /\ bc' = [bc EXCEPT ![h].loaded = message_count]
    /\ pc' = [pc EXCEPT ![h] = "bc_store1"]
    /\ UNCHANGED <<codecVars, lifeVars, serverVars, handlerVars, peerVars, frame, acc_handler,
                   snapshot, historyVars>>

\* if exclude_client: self.message_count -= 1: the store
BroadcastStore1(h) ==
    /\ pc[h] = "bc_store1"
    /\ message_count' = bc[h].loaded - 1
    /\ fanouts' = [fanouts EXCEPT ![bc[h].fid] =
                      [@ EXCEPT !.counted = TRUE,
                                !.delta = bc[h].loaded - 1 - fanouts[bc[h].fid].before]]
    /\ pc' = [pc EXCEPT ![h] = "bc_confirm"]
    /\ UNCHANGED <<codecVars, lifeVars, server_running, server_socket, clients, handlerVars,
                   peerVars, frame, acc_handler, bc, snapshot, registered, torn, events, dispatched>>

\* _handle_broadcast: confirmation with len(self.server.clients) - 1, sent to self
BroadcastConfirm(h) ==
    /\ pc[h] = "bc_confirm"
    /\ LET recipients == DictLen(clients) - 1
       IN  \/ /\ SendCanSucceed(h)
              /\ out' = [out EXCEPT ![h] = Append(@,
                            PyDict(<< <<K_type, PyStr(S_broadcast_sent)>>,
                                      <<K_recipients, PyInt(recipients)>> >>))]
              /\ fanouts' = [fanouts EXCEPT ![bc[h].fid] =
                                [@ EXCEPT !.status = "confirmed", !.recipients = recipients]]
              /\ pc' = [pc EXCEPT ![h] = "decode"]
              /\ UNCHANGED frame
           \/ /\ SendCanFail(h)
              /\ CallCleanup(h, h, "decode")
              /\ UNCHANGED <<out, fanouts>>
    /\ UNCHANGED <<codecVars, lifeVars, serverVars, handlerVars, nsent, acc_handler,
                   bc, snapshot, registered, torn, events, dispatched>>

(***************************************************************************)
(* TCPServer.stop                                                          *)
(***************************************************************************)
\* self.running = False; list(self.clients.values())
Stop ==
    /\ pc[MainThread] = "main"
    /\ server_running' = FALSE
    /\ snapshot' = DictValues(clients)
    /\ pc' = [pc EXCEPT ![MainThread] = "stop_iter"]
    /\ UNCHANGED <<codecVars, lifeVars, server_socket, clients, message_count, handlerVars,
                   peerVars, frame, acc_handler, bc, historyVars>>

\* for client_handler in ...: client_handler._cleanup()
StopIter ==
    /\ pc[MainThread] = "stop_iter"
    /\ IF snapshot = <<>>
       THEN /\ pc' = [pc EXCEPT ![MainThread] = "stop_close"]
            /\ UNCHANGED <<frame, snapshot>>
       ELSE /\ CallCleanup(MainThread, Head(snapshot), "stop_iter")
            /\ snapshot' = Tail(snapshot)
    /\ UNCHANGED <<codecVars, lifeVars, serverVars, handlerVars, peerVars, acc_handler, bc,
                   historyVars>>

\* if self.server_socket: self.server_socket.close()
StopClose ==
    /\ pc[MainThread] = "stop_close"
    /\ server_socket' = FALSE
    /\ pc' = [pc EXCEPT ![MainThread] = "stopped"]
    /\ UNCHANGED <<codecVars, lifeVars, server_running, clients, message_count, handlerVars,
                   peerVars, frame, acc_handler, bc, snapshot, historyVars>>

(***************************************************************************)
(* TCPServer() and TCPServer.start as far as the accept loop, on a host    *)
(* whose clock advances                                                    *)
(***************************************************************************)
Tick ==
    /\ clock < MaxClock
    /\ clock' = clock + 1
    /\ UNCHANGED <<codecVars, life, start_time, start_at, start_error, reports,
                   serverVars, handlerVars, peerVars, threadVars, historyVars>>

\* TCPServer.__init__: self.start_time = datetime.now()
Construct ==
    /\ life = "new"
    /\ start_time' = clock
    /\ life' = "constructed"
    /\ UNCHANGED <<codecVars, clock, start_at, start_error, reports, serverVars,
                   handlerVars, peerVars, threadVars, historyVars>>

\* start: self.server_socket = socket.socket(...); setsockopt
StartSocket ==
    /\ life = "constructed"
    /\ start_at' = clock
    /\ server_socket' = TRUE
    /\ life' = "socket"
    /\ UNCHANGED <<codecVars, clock, start_time, start_error, reports,
                   server_running, clients, message_count, handlerVars, peerVars,
                   threadVars, historyVars>>

\* an exception in start's try block: except Exception as e: print(...), and
\* start returns
StartFails(exc) ==
    /\ start_error' = exc
    /\ life' = "returned"

\* self.server_socket.bind((self.host, self.port)), which raises OSError when
\* the address is in use
StartBind ==
    /\ life = "socket"
    /\ \/ life' = "bound" /\ UNCHANGED start_error
       \/ StartFails("OSError")
    /\ UNCHANGED <<codecVars, clock, start_time, start_at, reports, serverVars,
                   handlerVars, peerVars, threadVars, historyVars>>

\* self.server_socket.listen(5); self.running = True; then the accept loop
StartListen ==
    /\ life = "bound"
    /\ \/ /\ life' = "serving"
          /\ server_running' = TRUE
          /\ UNCHANGED start_error
       \/ /\ StartFails("OSError")
          /\ UNCHANGED server_running
    /\ UNCHANGED <<codecVars, clock, start_time, start_at, reports, server_socket,
                   clients, message_count, handlerVars, peerVars, threadVars,
                   historyVars>>

\* get_stats called while the server serves
StatsCall ==
    /\ life = "serving"
    /\ Len(reports) < 1
    /\ reports' = Append(reports, <<Get(GetStats, K_uptime_seconds, None), clock>>)
    /\ UNCHANGED <<codecVars, life, clock, start_time, start_at, start_error,
                   serverVars, handlerVars, peerVars, threadVars, historyVars>>

LifeNext ==
    Tick \/ Construct \/ StartSocket \/ StartBind \/ StartListen \/ StatsCall

\* before TCPServer() is called
LifeInit == CodecIdle /\ TcpIdle

SpecStart == LifeInit /\ [][LifeNext]_vars

\* the server while it serves: stop is not called
Next ==
    \/ Accept \/ AcceptRegister \/ HandlerStart \/ HandlerSpawn
    \/ \E t \in Threads : CleanupClose(t) \/ CleanupCheck(t) \/ CleanupDel(t)
    \/ \E h \in Handlers :
          \/ HandlerRecv(h) \/ HandlerRecvEnd(h) \/ HandlerDecode(h)
          \/ BroadcastNext(h) \/ BroadcastLoad(h) \/ BroadcastStore(h)
          \/ BroadcastLoad1(h) \/ BroadcastStore1(h) \/ BroadcastConfirm(h)

Spec == Init /\ [][Next]_vars

\* the server with stop called at any time from another thread
NextStop == Next \/ Stop \/ StopIter \/ StopClose \/ AcceptClosed

SpecStop == Started(MaxConn - 1, MaxSend) /\ [][NextStop]_vars

\* the server while it serves, every thread that is inside _cleanup being
\* scheduled again (the interpreter switches between runnable threads)
CleanupFair ==
    \A t \in Threads : WF_vars(CleanupClose(t) \/ CleanupCheck(t) \/ CleanupDel(t))

SpecLive == Started(MaxConn - 1, MaxSend) /\ [][Next]_vars /\ CleanupFair

\* the server while it serves, with fewer connections and one more frame, so
\* that a request can follow a broadcast
SpecDispatch == Started(MaxConn - 1, MaxSend + 1) /\ [][Next]_vars

(***************************************************************************)
(* Properties of the frame codec, over SpecCodec.  last_decode holds the   *)
(* argument and the outcome of the latest decode_message call.             *)
(***************************************************************************)
\* the latest call was made on exactly the frame of the single message sent
DecodedWholeFrame ==
    /\ Len(sent) = 1
    /\ last_decode # <<>>
    /\ last_decode[1] = EncodeMessage(sent[1])

\* C1: round trip: decode_message(encode_message(m)) returns (m, empty buffer),
\* for every dictionary and every plain text m.
RoundTrip ==
    DecodedWholeFrame => last_decode[2] = Return(sent[1], <<>>)

\* C2: partial delivery: with the frame of m delivered in parts, each appended
\* to the buffer before a decode call, every call made before the last byte has
\* arrived returns None, and the call made once it has arrived returns m.
PartialDelivery ==
    (Len(sent) = 1 /\ last_decode # <<>>) =>
        LET whole == EncodeMessage(sent[1])
            data  == last_decode[1]
        IN  /\ (Len(data) < Len(whole) /\ data = SubSeq(whole, 1, Len(data)))
                  => (last_decode[2][1] = "return" /\ last_decode[2][2] = None)
            /\ data = whole
                  => (last_decode[2][1] = "return" /\ last_decode[2][2] = sent[1])

\* C3: decode_message never raises: whatever the bytes of a complete frame
\* (valid JSON, other text, invalid UTF-8), the call returns.
DecodeNeverRaises ==
    last_decode # <<>> => last_decode[2][1] = "return"

\* the buffer does not hold a complete frame
Insufficient(data) ==
    \/ Len(data) < 4
    \/ Len(data) < 4 + StructUnpackI(SubSeq(data, 1, 4))

\* C4: insufficient data: given fewer than 4 bytes, or a length prefix and fewer
\* body bytes than it announces, decode_message returns (None, the buffer
\* unchanged), and the receive loop keeps the buffer as it was.
InsufficientData ==
    (last_decode # <<>> /\ Insufficient(last_decode[1])) =>
        /\ last_decode[2] = Return(None, last_decode[1])
        /\ client_buffer = last_decode[1]

\* a call on a length prefix with part of its body, and one on part of a prefix
InsufficientDataSeen ==
    /\ last_decode # <<>>
    /\ Len(last_decode[1]) > 4
    /\ Insufficient(last_decode[1])
    /\ rx = "recv"

(***************************************************************************)
(* Properties of the server, over Spec.  fanouts holds one record for      *)
(* every broadcast request dispatched, events what went wrong and where.   *)
(***************************************************************************)
\* how many times send_message was called on handler m in a fan-out
TimesSent(f, m) == Cardinality({i \in 1..Len(f.sent) : f.sent[i] = m})

\* C5: broadcast exclusion: once the fan-out of a broadcast request from A is
\* over, every other connection registered when it began (and still in order
\* when it ended) has been sent the broadcast exactly once, and A never.
BroadcastExclusion ==
    \A i \in 1..Len(fanouts) :
        LET f == fanouts[i]
        IN  f.status # "iterating" =>
               /\ TimesSent(f, f.from) = 0
               /\ \A m \in f.alive \ {f.from} : TimesSent(f, m) = 1

\* C6: the recipients field of the broadcast_sent message A receives equals the
\* registry size minus one at the time of the fan-out (when it began, or when it
\* ended), which is the number of connections the broadcast was sent to, and is
\* never negative.
BroadcastRecipients ==
    \A i \in 1..Len(fanouts) :
        LET f == fanouts[i]
        IN  f.status = "confirmed" =>
               /\ f.recipients \in {f.size - 1, f.size_end - 1}
               /\ f.recipients = Len(f.sent)
               /\ f.recipients >= 0

\* no thread is inside _cleanup, and the accept loop is between two connections
Settled ==
    /\ \A t \in Threads : pc[t] \notin {"cleanup_close", "cleanup_check", "cleanup_del"}
    /\ pc[AcceptThread] = "accept"

\* the connections accepted on which no teardown has begun
StillConnected == {h \in 1..nconn : torn[h] = "no"}

\* C7: registry consistency: with the accepted connections registered and the
\* teardowns that began completed, the registry holds one entry for each
\* still-connected client and no other entry.
RegistryConsistency ==
    Settled =>
        /\ DictLen(clients) = Cardinality(StillConnected)
        /\ Members(clients) = StillConnected

\* C8: a connection is in the registry if and only if it has been accepted
\* (registered by the accept loop) and its teardown has not run: no entry of a
\* torn-down connection stays, no entry of a connection not torn down is missing.
RegistryIffConnected ==
    \A h \in Handlers :
        /\ h \in Members(clients) => (h \in registered /\ torn[h] # "done")
        /\ (h \in registered /\ torn[h] = "no") => h \in Members(clients)

\* C9: idempotent disconnect: a _cleanup called on a handler whose socket is
\* closed already, from any thread, raises nothing and removes nothing.
IdempotentDisconnect ==
    \A e \in events : e[3] = "cleanup" => ~e[4]

\* C10: error isolation: a teardown on one connection (after malformed input, a
\* disconnect or a socket error) ends no receive loop of a connection in order,
\* removes no other connection's registry entry, and leaves the accept loop
\* running.
ErrorIsolation ==
    /\ \A i \in 1..Len(fanouts) :
          LET f == fanouts[i]
          IN  ~(f.status = "aborted" /\ f.size_end < f.size /\ f.from \in f.alive)
    /\ \A e \in events :
          /\ ~(e[3] = "loop" /\ e[2] = "KeyError" /\ e[4])
          /\ e[3] # "accept"
          /\ e[2] # "removed"

\* The handler on whose socket thread t is in a send_message call (the call is
\* made, the step that completes it not yet taken), or 0: the welcome of the
\* accept thread, a handler thread's reply or confirmation, a fan-out's send.
SendingTo(t) ==
    IF t = AcceptThread
    THEN IF pc[t] = "acc_start" THEN acc_handler ELSE 0
    ELSE IF t \notin Handlers THEN 0
    ELSE IF pc[t] = "bc_confirm" THEN t
    ELSE IF pc[t] = "bc_next"
    THEN LET nx == IterNext(clients, bc[t].it)
         IN  IF nx[1] = "item" /\ nx[2] # ClientId(client_address[t]) THEN nx[3] ELSE 0
    ELSE IF pc[t] = "decode"
    THEN LET outcome == DecodeMessage(buffer[t])
         IN  IF outcome[1] = "return" /\ outcome[2] # None /\ ~IsBroadcast(outcome[2])
             THEN t ELSE 0
    ELSE 0

\* C13: per-connection sends are serialized: no two threads are in a send on
\* the same connection's open socket at the same time.
SendsSerialized ==
    \A t1, t2 \in Threads :
        (t1 # t2 /\ SendingTo(t1) # 0 /\ client_socket[SendingTo(t1)])
            => SendingTo(t2) # SendingTo(t1)

\* handler h's thread is inside the loop of broadcast_message
Iterating(h) == bc[h].fid # 0 /\ fanouts[bc[h].fid].status = "iterating"

\* C14: registry insert, remove and broadcast iteration are mutually exclusive:
\* no step changes the registry while a broadcast is iterating over it.
RegistryExclusive ==
    [][(\E h \in Handlers : Iterating(h)) => clients' = clients]_vars

\* C15: teardown runs exactly once per connection: no _cleanup is called on a
\* handler whose socket an earlier _cleanup closed, and no two threads are in
\* _cleanup of the same handler.
TeardownOnce ==
    \A t \in Threads :
        frame[t] # NoFrame =>
            /\ ~frame[t][3]
            /\ \A u \in Threads \ {t} : frame[u][1] # frame[t][1]

\* C16: for each broadcast request the counter message_count increases by
\* exactly the number of connections the broadcast was sent to: the value
\* broadcast_message leaves minus the value it found is the number of
\* send_message calls of its fan-out.
CounterCountsRecipients ==
    \A i \in 1..Len(fanouts) :
        fanouts[i].counted => fanouts[i].delta = Len(fanouts[i].sent)

(***************************************************************************)
(* Properties of stop, over SpecStop                                       *)
(***************************************************************************)
\* C11: graceful shutdown: once stop has returned (the listening socket closed
\* after the connections), the registry is empty and the socket of every
\* accepted connection is closed, the accept loop running concurrently or not.
GracefulShutdown ==
    pc[MainThread] = "stopped" =>
        /\ ~server_socket
        /\ DictLen(clients) = 0
        /\ \A h \in 1..nconn : ~client_socket[h]

(***************************************************************************)
(* Properties of the client, over SpecClient                               *)
(***************************************************************************)
\* C12: once TCPClient.disconnect has returned, the receive loop has finished
\* and the user callback is not invoked any more.
DisconnectJoins ==
    dis = "returned" =>
        /\ rx = "done"
        /\ Len(received) = seen_at_return

\* C17: the message counter never decreases: starting at 0, it is never
\* negative, over every run of connects, disconnects, broadcasts and stop.
CounterNeverNegative == message_count >= 0

(***************************************************************************)
(* Properties of the dispatch, over SpecDispatch.  dispatched holds, for   *)
(* each request answered by one message, the request, the response and     *)
(* whether its send succeeded; out[h] holds what was written to h's socket.*)
(***************************************************************************)
TypeOf(message) ==
    IF IsDict(message) THEN Get(message, K_type, PyStr(S_unknown)) ELSE None

\* the pings carrying timestamp = stamp that handler h dispatched, those of
\* them whose pong was sent, and the pongs for stamp written to h's socket
PingsOf(h, stamp) ==
    {i \in 1..Len(dispatched) :
        /\ dispatched[i].handler = h
        /\ TypeOf(dispatched[i].message) = PyStr(S_ping)
        /\ Get(dispatched[i].message, K_timestamp, None) = stamp}

PingsSent(h, stamp) == {i \in PingsOf(h, stamp) : dispatched[i].ok}

PongsTo(h, stamp) ==
    {j \in 1..Len(out[h]) :
        /\ TypeOf(out[h][j]) = PyStr(S_pong)
        /\ Get(out[h][j], K_ping_timestamp, None) = stamp}

PongsStamped(h, stamp) ==
    {j \in PongsTo(h, stamp) :
        /\ IsStr(Get(out[h][j], K_pong_timestamp, None))
        /\ ~StrLess(Get(out[h][j], K_pong_timestamp, None)[2], stamp[2])}

Stamps == {IsoFormat(t) : t \in Times}

\* C18 as stated: every ping carrying timestamp = T1 (on a connection the
\* answer can be written to) yields exactly one pong to the same connection,
\* with ping_timestamp = T1 and a pong_timestamp that is no earlier than T1.
PingPongNoEarlier ==
    \A h \in 1..nconn : \A stamp \in Stamps :
        Cardinality(PongsStamped(h, stamp)) = Cardinality(PingsSent(h, stamp))

\* C18, amended: every ping carrying timestamp = T1 (on a connection the
\* answer can be written to) yields exactly one pong to the same connection,
\* with ping_timestamp = T1 and a reading of the server's clock, earlier than
\* T1 or not, as pong_timestamp; a ping whose answer cannot be written yields
\* none.
PingPong ==
    \A h \in 1..nconn :
        /\ \A stamp \in Stamps :
              /\ Cardinality(PongsTo(h, stamp)) = Cardinality(PingsSent(h, stamp))
              /\ \A j \in PongsTo(h, stamp) :
                    Get(out[h][j], K_pong_timestamp, None) \in Stamps
        /\ \A j \in 1..Len(out[h]) :
              TypeOf(out[h][j]) = PyStr(S_pong)
                  => Get(out[h][j], K_ping_timestamp, None) \in Stamps

\* a ping stamped later than the server's clock reads, answered by its pong
PingPongSeen ==
    \E h \in 1..nconn : \E stamp \in Stamps :
        /\ PingsSent(h, stamp) # {}
        /\ PongsTo(h, stamp) # {}
        /\ PongsStamped(h, stamp) = {}

\* the plain texts, none of them JSON, among the frames the clients send
PlainTexts == {S_hi}

TextsOf(h, s) ==
    {i \in 1..Len(dispatched) :
        dispatched[i].handler = h /\ dispatched[i].data = EncodeMessage(PyStr(s))}

EchoesTo(h, s) ==
    {j \in 1..Len(out[h]) :
        /\ TypeOf(out[h][j]) = PyStr(S_echo)
        /\ Get(out[h][j], K_original_text, None) = PyStr(s)}

\* C19: a frame whose payload is a plain string s that is not JSON is decoded
\* to the str s, and the server answers it (on a connection the answer can be
\* written to) with one message of type echo whose original_text is s, to
\* the connection the frame came from.
PlainTextEchoed ==
    \A h \in 1..nconn : \A s \in PlainTexts :
        /\ \A i \in TextsOf(h, s) :
              /\ dispatched[i].message = PyStr(s)
              /\ TypeOf(dispatched[i].response) = PyStr(S_echo)
              /\ Get(dispatched[i].response, K_original_text, None) = PyStr(s)
        /\ Cardinality(EchoesTo(h, s))
              = Cardinality({i \in TextsOf(h, s) : dispatched[i].ok})

\* the text "hi" was received, decoded and answered with its echo
PlainTextEchoedSeen ==
    \E h \in 1..nconn :
        /\ \E i \in TextsOf(h, S_hi) : dispatched[i].ok
        /\ EchoesTo(h, S_hi) # {}

StatsOf(h) ==
    {i \in 1..Len(dispatched) :
        /\ dispatched[i].handler = h
        /\ TypeOf(dispatched[i].message) = PyStr(S_get_stats)
        /\ dispatched[i].ok}

\* the answer to request i reports the size the registry had
StatsClients(i) ==
    /\ TypeOf(dispatched[i].response) = PyStr(S_server_stats)
    /\ Get(dispatched[i].response, K_connected_clients, None)
          = PyInt(dispatched[i].size)

\* the requester was in the registry
StatsRequester(i) == dispatched[i].member

\* the answer to request i reports the recipients the broadcasts had sent to:
\* those of the broadcasts counted, and any of a broadcast under way
StatsTotal(i) ==
    \E n \in dispatched[i].sent_counted .. dispatched[i].sent_all :
        Get(dispatched[i].response, K_total_messages, None) = PyInt(n)

\* C20: a get_stats request is answered with a server_stats message whose
\* connected_clients is the size of the registry at the time of the request,
\* the requester being in it, and whose total_messages is the number of
\* recipients the broadcasts so far were sent to.
StatsAnswer ==
    \A h \in 1..nconn : \A i \in StatsOf(h) :
        StatsClients(i) /\ StatsRequester(i) /\ StatsTotal(i)

\* the types the dispatch of _process_message knows
KnownTypes == {PyStr(S_ping), PyStr(S_echo), PyStr(S_broadcast), PyStr(S_get_stats)}

\* the request just logged, in a step that logged one, came from h and was a
\* dict of unknown or missing type
UnknownFrom(h) ==
    /\ Len(dispatched') = Len(dispatched) + 1
    /\ dispatched'[Len(dispatched')].handler = h
    /\ IsDict(dispatched'[Len(dispatched')].message)
    /\ Get(dispatched'[Len(dispatched')].message, K_type, None) \notin KnownTypes

\* C24: a dict with an unrecognized or missing type is not an error: the
\* server answers the sender (on a connection the answer can be written to)
\* with one message of type response whose original_message is the inbound
\* message, nothing is raised and the connection stays open and registered.
UnknownTypeAnswered ==
    [][\A h \in Handlers :
          (UnknownFrom(h) /\ dispatched'[Len(dispatched')].ok) =>
              LET message == dispatched'[Len(dispatched')].message
              IN  /\ Len(out'[h]) = Len(out[h]) + 1
                  /\ SubSeq(out'[h], 1, Len(out[h])) = out[h]
                  /\ TypeOf(out'[h][Len(out'[h])]) = PyStr(S_response)
                  /\ Get(out'[h][Len(out'[h])], K_original_message, None) = message
                  /\ \A g \in Handlers \ {h} : out'[g] = out[g]
                  /\ events' = events
                  /\ client_socket'[h] = client_socket[h]
                  /\ running'[h] = running[h]
                  /\ clients' = clients
                  /\ pc'[h] = "decode"]_vars

\* dicts of an unknown type and of no type were answered on a connection that
\* is open and registered
UnknownTypeAnsweredSeen ==
    \E h \in 1..nconn :
        /\ Intact(h) /\ h \in Members(clients)
        /\ \E i, j \in 1..Len(dispatched) :
              /\ dispatched[i].handler = h /\ dispatched[i].ok
              /\ dispatched[i].message = CustomRequest
              /\ dispatched[j].handler = h /\ dispatched[j].ok
              /\ dispatched[j].message = UntypedRequest
        /\ Cardinality({k \in 1..Len(out[h]) : TypeOf(out[h][k]) = PyStr(S_response)}) = 2

\* the welcome messages written to the socket s of messages
Welcomes(s) == {j \in 1..Len(s) : TypeOf(s[j]) = PyStr(S_welcome)}

\* C23: every accepted connection is sent the welcome message exactly once
\* (none if the connection cannot be written to), by start as the connection
\* is set up and never in reply to an inbound message: only start writes a
\* welcome, no handler thread does, and a connection whose thread runs with
\* no teardown begun has exactly one.
WelcomeOnce ==
    [][\A h \in Handlers :
          /\ Welcomes(out'[h]) # Welcomes(out[h])
                => /\ pc[AcceptThread] = "acc_start" /\ acc_handler = h
                   /\ pc'[AcceptThread] # "acc_start"
                   /\ pc[h] = "unstarted"
                   /\ Cardinality(Welcomes(out[h])) = 0
                   /\ Cardinality(Welcomes(out'[h])) = 1
          /\ (h <= nconn' /\ pc'[h] # "unstarted" /\ torn'[h] = "no")
                => Cardinality(Welcomes(out'[h])) = 1]_vars

\* a connection was welcomed and then had a request answered
WelcomeOnceSeen ==
    \E h \in 1..nconn :
        /\ Cardinality(Welcomes(out[h])) = 1
        /\ \E i \in 1..Len(dispatched) : dispatched[i].handler = h /\ dispatched[i].ok
        /\ Len(out[h]) >= 2

\* the type of the reply the dispatch table fixes for a message
TableType(message) ==
    IF ~IsDict(message) THEN PyStr(S_echo)
    ELSE IF TypeOf(message) = PyStr(S_ping) THEN PyStr(S_pong)
    ELSE IF TypeOf(message) = PyStr(S_echo) THEN PyStr(S_echo_response)
    ELSE IF TypeOf(message) = PyStr(S_broadcast) THEN PyStr(S_broadcast_sent)
    ELSE IF TypeOf(message) = PyStr(S_get_stats) THEN PyStr(S_server_stats)
    ELSE PyStr(S_response)

\* the messages of type type written to the socket of h
Written(h, type) == {j \in 1..Len(out[h]) : TypeOf(out[h][j]) = type}

ReplyTypes ==
    {PyStr(S_pong), PyStr(S_echo_response), PyStr(S_server_stats), PyStr(S_echo),
     PyStr(S_response)}

\* C28: each message dispatched on a live connection produces exactly one
\* direct reply to its sender, of the type the dispatch table fixes: ping ->
\* pong, echo -> echo_response with the same content, broadcast ->
\* broadcast_sent, get_stats -> server_stats, plain text -> echo, any other
\* type -> response.
DispatchTable ==
    /\ \A i \in 1..Len(dispatched) :
          /\ TypeOf(dispatched[i].response) = TableType(dispatched[i].message)
          /\ TypeOf(dispatched[i].message) = PyStr(S_echo)
                => Get(dispatched[i].response, K_content, None)
                      = Get(dispatched[i].message, K_content, None)
    /\ \A h \in 1..nconn : \A type \in ReplyTypes :
          Cardinality(Written(h, type))
             = Cardinality({i \in 1..Len(dispatched) :
                               /\ dispatched[i].handler = h /\ dispatched[i].ok
                               /\ TableType(dispatched[i].message) = type})
    /\ \A h \in 1..nconn :
          Cardinality(Written(h, PyStr(S_broadcast_sent)))
             = Cardinality({i \in 1..Len(fanouts) :
                               fanouts[i].from = h /\ fanouts[i].status = "confirmed"})
    /\ \A i \in 1..Len(fanouts) :
          fanouts[i].status = "aborted" => fanouts[i].from \notin fanouts[i].alive

\* C31, over Spec: when the send to one recipient fails during a fan-out
\* started by A, only that recipient is torn down: the fan-out is not broken
\* off while A is in order, so that A is sent broadcast_sent and stays open
\* and registered, and the other recipients in order are sent the broadcast.
FailedSendIsolated ==
    \A i \in 1..Len(fanouts) :
        LET f == fanouts[i]
        IN  (f.failed # {} /\ f.status # "iterating") =>
               /\ f.from \in f.alive => f.status # "aborted"
               /\ \A m \in f.alive \ ({f.from} \cup f.failed) : TimesSent(f, m) = 1

\* C33, over Spec: the welcome is the first frame written to an accepted
\* connection: whatever has been written to a connection begins with its
\* welcome, no broadcast of another connection comes before it.
WelcomeFirst ==
    \A h \in Handlers :
        out[h] # <<>> => TypeOf(out[h][1]) = PyStr(S_welcome)

\* C34, over SpecDispatch: once the teardown of a connection has run, no
\* further inbound message of that connection is dispatched: no step answers
\* a request of it, and no step begins a broadcast for it.
NoDispatchAfterTeardown ==
    [][\A h \in Handlers :
          torn[h] = "done" =>
             /\ Len(dispatched') > Len(dispatched)
                   => dispatched'[Len(dispatched')].handler # h
             /\ Len(fanouts') > Len(fanouts)
                   => fanouts'[Len(fanouts')].from # h]_vars

\* C35, over Spec: the teardown of a connection removes only that
\* connection's own registry entry: the del of a _cleanup call takes no other
\* handler out of the registry, also when a new connection with the same
\* address:port was registered after the old socket was closed.
OwnEntryOnly ==
    [][\A t \in Threads :
          (pc[t] = "cleanup_del" /\ pc'[t] # "cleanup_del")
             => Members(clients) \ Members(clients') \subseteq {frame[t][1]}]_vars

(***************************************************************************)
(* Properties of the receive loops.                                        *)
(***************************************************************************)
\* C25: the receive loops drain all complete frames before waiting for more
\* bytes: whenever the loop of a handler or of the client is at its socket
\* read, its buffer holds no complete frame.
DrainsFrames ==
    /\ \A h \in 1..nconn : pc[h] = "recv" => Insufficient(buffer[h])
    /\ rx = "recv" => Insufficient(client_buffer)

\* C26: decode_message returns None as message if and only if the buffer
\* lacks a complete frame, whatever the payload.
NoneIffIncomplete ==
    (last_decode # <<>> /\ last_decode[2][1] = "return") =>
        (last_decode[2][2] = None <=> Insufficient(last_decode[1]))

\* C27: chunking independence: whatever messages were sent and however their
\* bytes were split into socket reads, once all bytes were read and the loop
\* is back at its socket read (or over), exactly those messages were
\* dispatched, each once and in order, and nothing is left in the buffer.
ChunkingIndependent ==
    (sent # <<>> /\ wire = <<>> /\ rx \in {"recv", "done"}) =>
        (received = sent /\ client_buffer = <<>>)

\* the bytes of the first k frames of the stream
RECURSIVE FrameBytes(_)
FrameBytes(k) ==
    IF k = 0 THEN 0 ELSE FrameBytes(k - 1) + Len(EncodeMessage(sent[k]))

\* the frames the client's loop has taken out of its buffer so far
FramesConsumed ==
    CHOOSE k \in 0..Len(sent) :
        FrameBytes(k) = FrameBytes(Len(sent)) - Len(wire) - Len(client_buffer)

\* C32, over SpecCodec: the client hands every inbound message it has decoded
\* to the user's callback, once and in the order of the frames: the callback
\* has been given exactly the decoded payloads of the frames taken out of the
\* buffer so far.
CallbackGetsEveryMessage ==
    sent # <<>> =>
        /\ Len(received) = FramesConsumed
        /\ \A i \in 1..Len(received) :
              received[i] = DecodeMessage(EncodeMessage(sent[i]))[2]

(***************************************************************************)
(* Properties of a TCPClient over its connections, over SpecReconnect.     *)
(***************************************************************************)
\* C36: send_message returns False and writes nothing to the socket whenever
\* the client is not connected: before a connect has succeeded, after
\* disconnect has closed the socket, and after the receive loop of the
\* connection has ended.
NotConnectedSendRefused ==
    \A i \in 1..Len(calls) :
        (calls[i].never \/ calls[i].closed \/ calls[i].ended)
            => ~calls[i].result /\ ~calls[i].wrote

\* send_message was called after the receive loop had ended with the socket
\* not closed by the client, and was refused
NotConnectedSendRefusedSeen ==
    \E i \in 1..Len(calls) :
        /\ calls[i].ended /\ ~calls[i].closed /\ ~calls[i].never
        /\ ~calls[i].result /\ ~calls[i].wrote

\* C37: every connection of the client starts with an empty receive buffer:
\* when connect starts the receive loop of a connection, the receive loops of
\* the earlier connections having ended, self.buffer holds no bytes.
FreshBuffer ==
    [][(/\ user = "connect" /\ user' = "idle"
        /\ \A t \in Conns : rthreads[t].pos \in {"unstarted", "done"})
          => client_buffer' = <<>>]_vars

\* C38: at most one receive loop acts on a TCPClient: the receive thread of
\* an earlier connection never reads from the socket of a later connection,
\* and never sets connected to False while the later connection is live.
OneReceiveLoop ==
    [][\A t \in Conns :
          /\ rthreads'[t].pos = "recv" => rthreads'[t].sock = t
          /\ (/\ t # receive_thread
              /\ rthreads[t].pos # "done" /\ rthreads'[t].pos = "done"
              /\ client_connected)
                => client_connected']_vars

(***************************************************************************)
(* Properties of teardown in time, over SpecLive.                          *)
(***************************************************************************)
\* the loop of handler h has ended (recv returned b'' or raised, or another
\* error left the loop) and its finally clause has called _cleanup
LoopEnded(h) == pc[h] = "cleanup_close" /\ frame[h][1] = h /\ frame[h][2] = "done"

TornDown(h) == ~client_socket[h] /\ ~running[h] /\ h \notin Members(clients)

\* C29: when the peer closes (zero-length read) or a read error occurs on a
\* connection of the server, the connection is eventually torn down: its
\* socket is closed, its running flag is false and its registry entry is
\* removed.
EventuallyTornDown == \A h \in Handlers : LoopEnded(h) ~> TornDown(h)

\* a connection whose peer closed was torn down by its own thread
EventuallyTornDownSeen ==
    \E h \in 1..nconn :
        /\ pc[h] = "done" /\ torn[h] = "done" /\ TornDown(h)
        /\ h \in registered

\* C30, over SpecStop: once stop is invoked the server reaches Stopped, stop
\* closing the listening socket and the accept loop exiting, under every
\* interleaving with the teardowns run by the connections' own threads.  As
\* no step but stop's last closes the listening socket: stop never ends, by an
\* exception, with the listening socket still open.
StopReachesStopped == ~(pc[MainThread] = "stop_raised" /\ server_socket)

(***************************************************************************)
(* Properties of construction and start, over SpecStart.                   *)
(***************************************************************************)
\* C21: the uptime_seconds get_stats reports is the time elapsed since start
\* was called, not since the TCPServer object was constructed.
UptimeSinceStart ==
    \A i \in 1..Len(reports) : reports[i][1] = PyInt(reports[i][2] - start_at)

\* C22: when bind or listen fails, start surfaces the failure to its caller
\* and leaves no partial state: the server is not running, no listening
\* socket stays open and no accept loop is started.
StartFailureSurfaced ==
    start_error # "none" =>
        /\ life = "raised"
        /\ ~server_running
        /\ ~server_socket

=============================================================================
